---- MODULE Spec2Model ----
(***************************************************************************)
(* Event intake and reliable-delivery pipeline of the web monitor SDK:     *)
(* Monitor (coordinator), Transport (delivery engine, priority-queue       *)
(* revision) and StorageManager (durable queue store).                     *)
(*                                                                         *)
(* The program runs on one event loop.  Every action below is one handler  *)
(* run to completion: a host call, a timer callback, a page signal, or the *)
(* settling of one promise chain.  Promise reactions of already settled    *)
(* promises are microtasks: they run before any other handler.             *)
(***************************************************************************)
EXTENDS Integers, Sequences, FiniteSets, Bags, TLC

VARIABLES
  highPriorityQueue,    \* Transport.highPriorityQueue
  mediumPriorityQueue,  \* Transport.mediumPriorityQueue
  lowPriorityQueue,     \* Transport.lowPriorityQueue
  pendingRequests,      \* Transport.pendingRequests
  retryQueue,           \* Transport.retryQueue
  isDestroyed,          \* Transport.isDestroyed
  reportTimer,          \* Transport.reportTimer is set (the interval is armed)
  inflight,             \* promise chains of sendBatch that have not settled (a bag)
  storedQueue,          \* localStorage item 'web_monitor_queue'
  nextId,               \* identity of the next event handed to Transport.send
  monitorDestroyed,     \* Monitor.isDestroyed
  sampled,              \* result of Monitor.shouldSample() at construction
  options,              \* Transport.options (merged configuration)
  host,                 \* capabilities of the hosting page
  released,             \* history: events a transport reported success for, or
                        \* whose retry record was dropped at the retry limit
  lastThrow,            \* history: the exception raised in the last handler
  beaconCalls,          \* history: bodies given to navigator.sendBeacon by the
                        \* last handler
  run,                  \* history: the current run of medium/low send() calls
                        \* that began with empty queues
  monitorBuilt,         \* the Monitor constructor returned (there is a Monitor)
  breadcrumbs,          \* Monitor.breadcrumbs
  plugins,              \* Monitor.plugins (a Map: insertion order)
  managerPlugins,       \* PluginManager.plugins (a Map: insertion order)
  appended,             \* history: addBreadcrumb calls since breadcrumbs was []
  hookCalls,            \* history: the user hooks the last handler invoked
  lastCall,             \* history: the last handler was Monitor.destroy (again:
                        \* directly after Monitor.destroy), Monitor.report, or
                        \* another one
  storedTimer,          \* localStorage item 'web_monitor_timer'
  returned              \* history: the last direct call of a StorageManager
                        \* method or of startReportTimer, and what it returned

vars == << highPriorityQueue, mediumPriorityQueue, lowPriorityQueue,
           pendingRequests, retryQueue, isDestroyed, reportTimer, inflight,
           storedQueue, nextId, monitorDestroyed, sampled, options, host,
           released, lastThrow, beaconCalls, run, monitorBuilt, breadcrumbs,
           plugins, managerPlugins, appended, hookCalls, lastCall,
           storedTimer, returned >>

----------------------------------------------------------------------------
(* Bounds of the model *)

MaxEvents == 2
MaxRetryRecords == 2
MaxAttempts == 3
MaxBatchSize == 2
MaxQueueCeiling == 2
MaxRetryCount == 1
MaxBreadcrumbsNum == 2
MaxAppended == 3
MaxClock == 4
MaxInterval == 2

(* Program constants *)

MAX_STORAGE_SIZE == 1048576
MaxPendingForDrain == 3

----------------------------------------------------------------------------
(* Events (ReportData) *)

NoPriority == "undefined"
Priorities == {"high", "medium", "low"}
DataTypes == {"error", "performance", "behavior"}

\* What the category-specific payload (data, breadcrumbs[].data) holds:
\*   plain    only values JSON represents
\*   lossy    a value JSON.stringify rewrites (NaN, undefined, Date)
\*   degraded what a lossy payload has become after JSON
\*   circular a cyclic structure: JSON.stringify throws
\*   huge     serialises to more than MAX_STORAGE_SIZE characters
Payloads == {"plain", "lossy", "degraded", "circular", "huge"}

\* localStorage.getItem: no item (null), or the one item stored under the key.
\* An item is text that parses to an array (value), or text that does not parse.
NoItem == << >>
Item(text) == << [parses |-> TRUE, value |-> text] >>

Min(a, b) == IF a < b THEN a ELSE b

RECURSIVE Pow2(_)
Pow2(n) == IF n = 0 THEN 1 ELSE 2 * Pow2(n - 1)

IdsOf(batch) == {batch[i].id : i \in 1..Len(batch)}

----------------------------------------------------------------------------
(* JSON *)

CanStringify(batch) == \A i \in 1..Len(batch) : batch[i].payload # "circular"

ToJson(e) ==
  [ id |-> e.id,
    type |-> e.type,
    priority |-> IF e.priority = NoPriority THEN "absent" ELSE e.priority,
    breadcrumbs |-> e.breadcrumbs,
    data |-> IF e.payload = "lossy" THEN "degraded" ELSE e.payload ]

FromJson(j) ==
  [ id |-> j.id,
    type |-> j.type,
    priority |-> IF j.priority = "absent" THEN NoPriority ELSE j.priority,
    breadcrumbs |-> j.breadcrumbs,
    payload |-> j.data ]

JsonStringify(batch) == [i \in 1..Len(batch) |-> ToJson(batch[i])]

JsonParse(text) == [i \in 1..Len(text) |-> FromJson(text[i])]

RECURSIVE JsonLength(_)
JsonLength(text) ==
  IF text = << >> THEN 2
  ELSE (IF Head(text).data = "huge" THEN MAX_STORAGE_SIZE + 1 ELSE 1)
       + JsonLength(Tail(text))

----------------------------------------------------------------------------
(* The program state a handler works on, as one record *)

Cur ==
  [ high |-> highPriorityQueue, medium |-> mediumPriorityQueue,
    low |-> lowPriorityQueue, pending |-> pendingRequests,
    retry |-> retryQueue, destroyed |-> isDestroyed, timer |-> reportTimer,
    inflight |-> inflight, store |-> storedQueue, released |-> released,
    beacons |-> << >>, hooks |-> << >>, thrown |-> FALSE ]

Becomes(s) ==
  /\ highPriorityQueue' = s.high
  /\ mediumPriorityQueue' = s.medium
  /\ lowPriorityQueue' = s.low
  /\ pendingRequests' = s.pending
  /\ retryQueue' = s.retry
  /\ isDestroyed' = s.destroyed
  /\ reportTimer' = s.timer
  /\ inflight' = s.inflight
  /\ storedQueue' = s.store
  /\ released' = s.released
  /\ beaconCalls' = s.beacons
  /\ hookCalls' = s.hooks

----------------------------------------------------------------------------
(* StorageManager *)

\* An availability probe that always answers yes
isLocalStorageAssumed == TRUE

isLocalStorageAvailable == host.storage

\* StorageManager.save without its size check
SaveResultNoCap(data) == isLocalStorageAvailable /\ CanStringify(data)

\* StorageManager.save: the value it returns
SaveResult(data) ==
  /\ isLocalStorageAvailable
  /\ CanStringify(data)
  /\ JsonLength(JsonStringify(data)) <= MAX_STORAGE_SIZE

\* StorageManager.save: its effect on the stored item
save(s, data) ==
  IF SaveResult(data) THEN [s EXCEPT !.store = Item(JsonStringify(data))] ELSE s

\* StorageManager.clear
clear(s) == IF isLocalStorageAvailable THEN [s EXCEPT !.store = NoItem] ELSE s

\* StorageManager.load: the array it returns
load(s) ==
  IF ~isLocalStorageAvailable THEN << >>
  ELSE IF s.store = NoItem THEN << >>
  ELSE IF ~s.store[1].parses THEN << >>
  ELSE JsonParse(s.store[1].value)

\* StorageManager.load that leaves a corrupted item where it is
loadEffectKeeps(s) == s

\* StorageManager.load: its effect (a corrupted item is cleared)
loadEffect(s) ==
  IF isLocalStorageAvailable /\ s.store # NoItem /\ ~s.store[1].parses
    THEN clear(s) ELSE s

\* parseInt(text, 10) of the timer item: the text saveLastReportTime wrote is
\* timestamp.toString() and parses to the timestamp; other text gives NaN
NaN == [nan |-> TRUE, number |-> 0]
Number(n) == [nan |-> FALSE, number |-> n]

parseInt(item) == IF item.parses THEN Number(item.value) ELSE NaN

\* StorageManager.saveLastReportTime: the value it returns, and its effect
saveLastReportTimeResult == isLocalStorageAvailable

saveLastReportTime(timer, timestamp) ==
  IF isLocalStorageAvailable THEN Item(timestamp) ELSE timer

\* StorageManager.getLastReportTime
getLastReportTime(timer) ==
  IF ~isLocalStorageAvailable THEN Number(0)
  ELSE IF timer = NoItem THEN Number(0)
  ELSE parseInt(timer[1])

\* StorageManager.clearTimer
clearTimer(timer) == IF isLocalStorageAvailable THEN NoItem ELSE timer

\* history: no StorageManager method was called directly
NoReturn == [op |-> "none"]

----------------------------------------------------------------------------
(* Transport, revision with one queue: the start of the report timer *)

\* startReportTimer that arms the interval only when the one-shot timer fires
startReportTimerChained(now, interval, lastReportTime) ==
  LET recorded == ~lastReportTime.nan /\ lastReportTime.number > 0
      timeSinceLastReport == now - lastReportTime.number
      first == IF ~recorded THEN interval
               ELSE IF timeSinceLastReport < interval
                 THEN interval - timeSinceLastReport
               ELSE 0
      nextReportDelay == IF first <= 0 THEN interval ELSE first
  IN [ processedAtOnce |-> first <= 0,
       setInterval |-> nextReportDelay + interval,
       setTimeout |-> << nextReportDelay >> ]

\* Transport.startReportTimer: whether it calls processQueuedData itself, the
\* delay of the first callback of its setInterval, and the delay of its
\* setTimeout if it sets one
startReportTimer(now, interval, lastReportTime) ==
  LET recorded == ~lastReportTime.nan /\ lastReportTime.number > 0
      timeSinceLastReport == now - lastReportTime.number
      first == IF ~recorded THEN interval
               ELSE IF timeSinceLastReport < interval
                 THEN interval - timeSinceLastReport
               ELSE 0
      nextReportDelay == IF first <= 0 THEN interval ELSE first
  IN [ processedAtOnce |-> first <= 0,
       setInterval |-> interval,
       setTimeout |-> IF nextReportDelay # interval
                        THEN << nextReportDelay >> ELSE << >> ]

----------------------------------------------------------------------------
(* Transport *)

getDefaultPriority(dataType) ==
  CASE dataType = "error" -> "high"
    [] dataType = "performance" -> "medium"
    [] dataType = "behavior" -> "low"
    [] OTHER -> "medium"

\* data.priority || this.getDefaultPriority(data.type)
PriorityOf(data) ==
  IF data.priority # NoPriority THEN data.priority
  ELSE getDefaultPriority(data.type)

\* addToQueue that puts the event at the head of its queue
addToQueueFront(s, data, priority) ==
  CASE priority = "high" -> [s EXCEPT !.high = << data >> \o @]
    [] priority = "medium" -> [s EXCEPT !.medium = << data >> \o @]
    [] priority = "low" -> [s EXCEPT !.low = << data >> \o @]
    [] OTHER -> s

addToQueue(s, data, priority) ==
  CASE priority = "high" -> [s EXCEPT !.high = Append(@, data)]
    [] priority = "medium" -> [s EXCEPT !.medium = Append(@, data)]
    [] priority = "low" -> [s EXCEPT !.low = Append(@, data)]
    [] OTHER -> s

RECURSIVE AddAll(_, _)
AddAll(s, items) ==
  IF items = << >> THEN s
  ELSE AddAll(addToQueue(s, Head(items), PriorityOf(Head(items))), Tail(items))

\* loadDataFromStorage that leaves the stored item in place
loadDataKeepStored(s) == AddAll(loadEffect(s), load(s))

loadDataFromStorage(s) == clear(AddAll(loadEffect(s), load(s)))

AllData(s) == s.high \o s.medium \o s.low

\* saveDataToStorage that forgets the medium and low queues
saveHighOnly(s) == IF Len(s.high) > 0 THEN save(s, s.high) ELSE s

\* saveDataToStorage without its test for waiting events
saveEvenEmpty(s) == save(s, AllData(s))

saveDataToStorage(s) == IF Len(AllData(s)) > 0 THEN save(s, AllData(s)) ELSE s

\* navigator.sendBeacon is reached and called
BeaconInvoked(data) == host.beacon /\ CanStringify(data)

\* trySendBeacon: "null", or the state of the promise it returns.
\* beaconReturn is what navigator.sendBeacon returns when it is called.
trySendBeacon(data, beaconReturn) ==
  IF ~host.beacon THEN "null"
  ELSE IF ~CanStringify(data) THEN "rejected"
  ELSE IF beaconReturn THEN "resolved" ELSE "rejected"

\* history: a transport reported success for this batch, or its retry record
\* was dropped at the retry limit
Released(s, batch) == [s EXCEPT !.released = @ \cup IdsOf(batch)]

\* history: what trySendBeacon leaves behind, the body given to
\* navigator.sendBeacon and the success it returned
Beaconed(s, data, beaconReturn) ==
  LET s1 == IF BeaconInvoked(data)
              THEN [s EXCEPT !.beacons = Append(@, JsonStringify(data))]
              ELSE s
  IN IF trySendBeacon(data, beaconReturn) = "resolved"
       THEN Released(s1, data) ELSE s1

flushAllQueues(s, beaconReturn) ==
  LET allData == AllData(s)
  IN IF Len(allData) > 0
       THEN [Beaconed(s, allData, beaconReturn)
               EXCEPT !.high = << >>, !.medium = << >>, !.low = << >>]
       ELSE s

\* The promise chain sendBatch builds, by the priority it is called with.
\* attempts (history) counts the transmissions of this batch up to this one,
\* along the failures and resends that led to it.
StartChain(s, batch, priority, beaconReturn, attempts) ==
  LET r == trySendBeacon(batch, beaconReturn)
      chain == IF priority = "high"
                 THEN (IF r = "null" THEN "fetch" ELSE r)
                 ELSE "fetchThenXHR"
      s2 == IF priority = "high" THEN Beaconed(s, batch, beaconReturn) ELSE s
  IN [s2 EXCEPT !.inflight =
        @ (+) SetToBag({[data |-> batch, chain |-> chain, attempts |-> attempts]})]

sendBatch(s, batch, priority, beaconReturn, attempts) ==
  IF s.destroyed THEN s
  ELSE LET s1 == [s EXCEPT !.pending = @ + 1]
       IN IF ~CanStringify(batch) THEN [s1 EXCEPT !.thrown = TRUE]
          ELSE StartChain(s1, batch, priority, beaconReturn, attempts)

sendImmediately(s, data, beaconReturn) ==
  sendBatch(s, data, "high", beaconReturn, 1)

\* Array.prototype.splice(0, n): the removed head and what is left
SpliceHead(q, n) == SubSeq(q, 1, Min(n, Len(q)))
SpliceRest(q, n) == SubSeq(q, Min(n, Len(q)) + 1, Len(q))

ConcurrencyGate(s) == s.pending > MaxPendingForDrain

\* processQueuedData that sends a batch for a queue that is empty too
processQueuedDataOfEmpty(s) ==
  IF s.destroyed \/ ConcurrencyGate(s) THEN s
  ELSE
    LET s1 == sendBatch([s EXCEPT !.medium = SpliceRest(@, options.batchSize)],
                        SpliceHead(s.medium, options.batchSize),
                        "medium", FALSE, 1)
        s2 == IF s1.thrown THEN s1
              ELSE sendBatch([s1 EXCEPT !.low = SpliceRest(@, options.batchSize)],
                             SpliceHead(s1.low, options.batchSize),
                             "low", FALSE, 1)
    IN IF s2.thrown THEN s2 ELSE clear(s2)

processQueuedData(s) ==
  IF s.destroyed \/ ConcurrencyGate(s) THEN s
  ELSE
    LET hasData == Len(s.high) > 0 \/ Len(s.medium) > 0 \/ Len(s.low) > 0
        s1 == IF Len(s.medium) > 0
                THEN sendBatch(
                       [s EXCEPT !.medium = SpliceRest(@, options.batchSize)],
                       SpliceHead(s.medium, options.batchSize),
                       "medium", FALSE, 1)
                ELSE s
        s2 == IF s1.thrown THEN s1
              ELSE IF Len(s1.low) > 0
                THEN sendBatch(
                       [s1 EXCEPT !.low = SpliceRest(@, options.batchSize)],
                       SpliceHead(s1.low, options.batchSize),
                       "low", FALSE, 1)
                ELSE s1
    IN IF s2.thrown THEN s2
       ELSE IF hasData THEN clear(s2) ELSE s2

TotalQueueSize(s) == Len(s.high) + Len(s.medium) + Len(s.low)

OverflowReached(s) == TotalQueueSize(s) >= options.maxQueueSize

checkQueueOverflow(s) ==
  IF OverflowReached(s) THEN processQueuedData(s) ELSE s

send(s, data, beaconReturn) ==
  IF s.destroyed THEN s
  ELSE LET priority == PriorityOf(data)
       IN IF priority = "high" /\ options.enableImmediateReport
            THEN sendImmediately(s, << data >>, beaconReturn)
            ELSE checkQueueOverflow(addToQueue(s, data, priority))

\* nextRetryTime is kept as the time left until it, nextRetryTime - Date.now().
\* attempts (history): the transmissions of the batch that led to this record.
addToRetryQueue(s, data, attempts) ==
  [s EXCEPT !.retry = Append(@, [ data |-> data, retryCount |-> 0,
                                  nextRetryTime |-> options.retryInterval,
                                  attempts |-> attempts ])]

\* The retry record after one more resend
Backoff(item) ==
  [ item EXCEPT !.retryCount = @ + 1,
                !.nextRetryTime =
                   options.retryInterval * Pow2(item.retryCount + 1),
                !.attempts = Min(@ + 1, MaxAttempts) ]

\* now >= item.nextRetryTime
Ready(item) == item.nextRetryTime <= 0

\* readyToRetry.forEach(...): items are the records not yet visited, kept the
\* visited records that stay in the retry queue.
RECURSIVE RetryEach(_, _, _)
RetryEach(s, items, kept) ==
  IF items = << >> THEN [s EXCEPT !.retry = kept]
  ELSE
    LET item == Head(items)
    IN IF ~Ready(item)
         THEN RetryEach(s, Tail(items), Append(kept, item))
       ELSE IF item.retryCount < options.retryCount
         THEN LET s1 == sendBatch(s, item.data, "medium", FALSE,
                                  Backoff(item).attempts)
              IN IF s1.thrown
                   THEN [s1 EXCEPT !.retry =
                           Append(kept, Backoff(item)) \o Tail(items)]
                   ELSE RetryEach(s1, Tail(items), Append(kept, Backoff(item)))
       ELSE RetryEach(Released(s, item.data), Tail(items), kept)

processRetryQueue(s) ==
  IF Len(s.retry) = 0 \/ ConcurrencyGate(s) THEN s
  ELSE RetryEach(s, s.retry, << >>)

destroy(s, beaconReturn) ==
  LET s1 == [s EXCEPT !.destroyed = TRUE, !.timer = FALSE]
      s2 == flushAllQueues(s1, beaconReturn)
  IN [s2 EXCEPT !.retry = << >>]

\* Transport.getQueueStatus(): reads five fields
getQueueStatus(s) ==
  [ high |-> Len(s.high), medium |-> Len(s.medium), low |-> Len(s.low),
    retry |-> Len(s.retry), pending |-> s.pending ]

\* The state a newly constructed Transport starts in (the page's heap is new,
\* localStorage is what the previous page left)
constructed(s) ==
  loadDataFromStorage(
    [s EXCEPT !.high = << >>, !.medium = << >>, !.low = << >>,
              !.pending = 0, !.retry = << >>, !.destroyed = FALSE,
              !.timer = TRUE, !.inflight = EmptyBag])

\* .then() of sendBatch
onFulfilled(s) == [s EXCEPT !.pending = @ - 1]

\* .catch() of sendBatch
onRejected(s, entry) ==
  addToRetryQueue([s EXCEPT !.pending = @ - 1], entry.data, entry.attempts)

\* One retry interval passes
elapse(s) ==
  [s EXCEPT !.retry =
     [i \in 1..Len(@) |->
        [@[i] EXCEPT !.nextRetryTime =
           IF @ > options.retryInterval THEN @ - options.retryInterval ELSE 0]]]

----------------------------------------------------------------------------
(* Monitor *)

\* Math.random() < this.config.sampling; below is whether Math.random() < 0.5
shouldSample(below) ==
  CASE options.sampling = "0" -> FALSE
    [] options.sampling = "1" -> TRUE
    [] options.sampling = "1.5" -> TRUE
    [] OTHER -> below

\* safeExecute without its catch block
safeExecuteNoCatch(before, after) ==
  IF monitorDestroyed THEN before ELSE after

\* safeExecute without its isDestroyed check
safeExecuteAfterDestroy(before, after) == [after EXCEPT !.thrown = FALSE]

\* Monitor.safeExecute: before is the state at the call, after the state the
\* wrapped function leaves (thrown: it raised).  The catch block swallows.
safeExecute(before, after) ==
  IF monitorDestroyed THEN before ELSE [after EXCEPT !.thrown = FALSE]

\* An invocation of a user hook by a handler
Call(hook, of, result) == [hook |-> hook, of |-> of, result |-> result]

\* What beforeSend does with the event it is given
HookResults == {"pass", "null", "throw"}

\* A report() that hands the event on although beforeSend returned null
reportBodyIgnoresNull(s, data, hook, beaconReturn) ==
  LET called == [s EXCEPT !.hooks = Append(@, Call("beforeSend", "event", hook))]
  IN IF hook = "throw" THEN [called EXCEPT !.thrown = TRUE]
     ELSE send(called, data, beaconReturn)

\* The body of Monitor.report: build the event, run beforeSend, hand on
reportBody(s, data, hook, beaconReturn) ==
  LET called == [s EXCEPT !.hooks = Append(@, Call("beforeSend", "event", hook))]
  IN CASE hook = "throw" -> [called EXCEPT !.thrown = TRUE]
       [] hook = "null" -> called
       [] OTHER -> send(called, data, beaconReturn)

\* Monitor.addBreadcrumb: shift() when the history is at the cap (shift() of
\* an empty array does nothing), then push()
addBreadcrumb(crumbs, crumb) ==
  LET kept == IF Len(crumbs) >= options.maxBreadcrumbsNum /\ crumbs # << >>
                THEN Tail(crumbs) ELSE crumbs
  IN Append(kept, crumb)

\* Map.has, Map.get and Map.delete on a registry kept in insertion order
has(registry, name) == \E i \in 1..Len(registry) : registry[i].name = name
get(registry, name) == SelectSeq(registry, LAMBDA p : p.name = name)
delete(registry, name) == SelectSeq(registry, LAMBDA p : p.name # name)

\* What a registry operation leaves: the registry, the hooks it invoked, and
\* whether an exception escapes it
Outcome(registry, calls, thrown) ==
  [plugins |-> registry, calls |-> calls, thrown |-> thrown]

\* Monitor.use: set() comes before install(), and nothing catches
use(registry, plugin) ==
  IF has(registry, plugin.name) THEN Outcome(registry, << >>, FALSE)
  ELSE Outcome(Append(registry, plugin),
               << Call("install", plugin.name, plugin.install) >>,
               plugin.install = "raises")

\* Monitor.unuse: uninstall() comes before delete(), and nothing catches
unuse(registry, name) ==
  LET found == get(registry, name)
  IN CASE found = << >> -> Outcome(registry, << >>, FALSE)
       [] found # << >> /\ found[1].uninstall = "none" ->
            Outcome(delete(registry, name), << >>, FALSE)
       [] found # << >> /\ found[1].uninstall = "ok" ->
            Outcome(delete(registry, name),
                    << Call("uninstall", name, "ok") >>, FALSE)
       [] OTHER -> Outcome(registry, << Call("uninstall", name, "raises") >>, TRUE)

\* plugins.forEach of Monitor.destroy: the first hook that raises ends it
RECURSIVE forEachUninstall(_)
forEachUninstall(registry) ==
  IF registry = << >> THEN Outcome(<< >>, << >>, FALSE)
  ELSE LET p == Head(registry)
           rest == forEachUninstall(Tail(registry))
       IN CASE p.uninstall = "none" -> rest
            [] p.uninstall = "raises" ->
                 Outcome(<< >>, << Call("uninstall", p.name, "raises") >>, TRUE)
            [] OTHER ->
                 Outcome(<< >>, << Call("uninstall", p.name, "ok") >> \o rest.calls,
                         rest.thrown)

\* The part of Monitor.destroy after transport.destroy(): forEach, then
\* plugins.clear() and breadcrumbs = [], which an exception skips
uninstallAll(registry) ==
  LET each == forEachUninstall(registry)
  IN Outcome(IF each.thrown THEN registry ELSE << >>, each.calls, each.thrown)

----------------------------------------------------------------------------
(* PluginManager *)

\* PluginManager.install: install() comes before set(), inside try/catch
PluginManager_install(registry, plugin) ==
  CASE has(registry, plugin.name) -> Outcome(registry, << >>, FALSE)
    [] ~has(registry, plugin.name) /\ plugin.install = "raises" ->
         Outcome(registry, << Call("install", plugin.name, "raises") >>, FALSE)
    [] OTHER -> Outcome(Append(registry, plugin),
                        << Call("install", plugin.name, "ok") >>, FALSE)

\* PluginManager.uninstall: delete() follows uninstall() inside the try block
PluginManager_uninstall(registry, name) ==
  LET found == get(registry, name)
  IN CASE found = << >> -> Outcome(registry, << >>, FALSE)
       [] found # << >> /\ found[1].uninstall = "none" ->
            Outcome(delete(registry, name), << >>, FALSE)
       [] found # << >> /\ found[1].uninstall = "ok" ->
            Outcome(delete(registry, name),
                    << Call("uninstall", name, "ok") >>, FALSE)
       [] OTHER -> Outcome(registry, << Call("uninstall", name, "raises") >>, FALSE)

\* PluginManager.destroy: each uninstall() in its own try/catch, then clear()
RECURSIVE UninstallCalls(_)
UninstallCalls(registry) ==
  IF registry = << >> THEN << >>
  ELSE LET p == Head(registry)
       IN (IF p.uninstall = "none" THEN << >>
           ELSE << Call("uninstall", p.name, p.uninstall) >>)
          \o UninstallCalls(Tail(registry))

PluginManager_destroy(registry) ==
  Outcome(<< >>, UninstallCalls(registry), FALSE)

\* generateUserId reads localStorage outside any try block
generateUserIdRaises == host.storageRaises

\* The Monitor constructor returns: generateUserId runs before the Transport
\* is constructed, and nothing in the constructor checks the configuration
constructorReturns == ~generateUserIdRaises

----------------------------------------------------------------------------
(* Configurations, hosts and producer inputs of the model *)

Configs ==
  [ batchSize : 1..MaxBatchSize,
    maxQueueSize : 1..MaxQueueCeiling,
    enableImmediateReport : BOOLEAN,
    retryCount : {MaxRetryCount},
    retryInterval : {1},
    sampling : {"0", "0.5", "1"},
    appId : {"app"},
    reportUrl : {"url"},
    maxBreadcrumbsNum : {MaxBreadcrumbsNum} ]

\* storage: localStorage is there and takes writes (isLocalStorageAvailable);
\* storageRaises: every access to localStorage raises (a sandboxed document)
\* bot: isBot() answers true for navigator.userAgent (only BotHosts are)
Hosts ==
  { h \in [ beacon : BOOLEAN, storage : BOOLEAN, storageRaises : BOOLEAN,
            bot : {FALSE} ] :
      h.storageRaises => ~h.storage }

\* The plugins a host passes: what install() does, and what uninstall() does
\* (none: the plugin has no uninstall method)
Plugins ==
  { [name |-> "a", install |-> "ok", uninstall |-> "ok"],
    [name |-> "a", install |-> "raises", uninstall |-> "none"],
    [name |-> "b", install |-> "ok", uninstall |-> "raises"] }

PluginNames == {p.name : p \in Plugins}

EventKinds ==
  { [type |-> "error", priority |-> NoPriority, payload |-> "plain"],
    [type |-> "performance", priority |-> NoPriority, payload |-> "lossy"],
    [type |-> "behavior", priority |-> NoPriority, payload |-> "plain"],
    [type |-> "behavior", priority |-> "high", payload |-> "circular"],
    [type |-> "performance", priority |-> NoPriority, payload |-> "circular"],
    [type |-> "error", priority |-> "low", payload |-> "huge"] }

\* An event built without the breadcrumb history
NewEventBare(kind) ==
  [ id |-> nextId, type |-> kind.type, priority |-> kind.priority,
    breadcrumbs |-> << >>, payload |-> kind.payload ]

\* reportData: breadcrumbs is [...this.breadcrumbs], a new array with the
\* entries of the history at this moment
NewEvent(kind) ==
  [ id |-> nextId, type |-> kind.type, priority |-> kind.priority,
    breadcrumbs |-> breadcrumbs, payload |-> kind.payload ]

----------------------------------------------------------------------------
(* History of the last handler *)

NoThrow == [handler |-> "none", caught |-> FALSE]

\* body is the state the handler's code leaves, s the state its caller sees
Threw(handler, body, s) ==
  lastThrow' = IF body.thrown THEN [handler |-> handler, caught |-> ~s.thrown]
               ELSE NoThrow

NoRun == [active |-> FALSE, sends |-> 0, flushes |-> 0]
FreshRun == [active |-> TRUE, sends |-> 0, flushes |-> 0]

\* After a handler other than a medium/low send(): a run can begin if the
\* queues are empty
RunAfter(s) == IF TotalQueueSize(s) = 0 THEN FreshRun ELSE NoRun

\* After send(data) took s0 to s: one more send of the run, and one more forced
\* flush cycle if checkQueueOverflow called processQueuedData
RunAfterSend(s0, data, s) ==
  LET priority == PriorityOf(data)
  IN IF run.active /\ priority \in {"medium", "low"}
          /\ run.sends <= options.maxQueueSize
       THEN [ active |-> TRUE, sends |-> run.sends + 1,
              flushes |-> run.flushes
                 + (IF OverflowReached(addToQueue(s0, data, priority))
                      THEN 1 ELSE 0) ]
       ELSE RunAfter(s)

----------------------------------------------------------------------------
(* Actions *)

SettledChains == {"resolved", "rejected"}

\* No promise reaction is queued: the event loop may take the next task
NoMicrotask == \A e \in BagToSet(inflight) : e.chain \notin SettledChains

\* The last handler was Monitor.destroy
TeardownCalls == {"destroy", "destroyAgain"}

\* What an engine handler leaves of the coordinator
CoordinatorIdle ==
  /\ lastCall' = "other"
  /\ UNCHANGED << monitorBuilt, breadcrumbs, plugins, managerPlugins, appended,
                  storedTimer, returned >>

\* What a handler of the breadcrumb history or of a registry leaves of the
\* engine
EngineIdle ==
  /\ beaconCalls' = << >>
  /\ UNCHANGED << highPriorityQueue, mediumPriorityQueue, lowPriorityQueue,
                  pendingRequests, retryQueue, isDestroyed, reportTimer,
                  inflight, storedQueue, released, run, nextId,
                  monitorDestroyed, sampled, options, host, monitorBuilt,
                  storedTimer, returned >>

\* The exception a handler raised, if it raised one
Raised(handler, out, caught) ==
  lastThrow' = IF \E i \in 1..Len(out.calls) : out.calls[i].result = "raises"
                 THEN [handler |-> handler, caught |-> caught]
               ELSE NoThrow

\* new Monitor(config) on a page that was just loaded
InitOver(configs, hosts) ==
  /\ options \in configs
  /\ host \in hosts
  /\ monitorBuilt = constructorReturns
  /\ breadcrumbs = << >>
  /\ plugins = << >>
  /\ managerPlugins = << >>
  /\ appended = 0
  /\ hookCalls = << >>
  /\ lastCall = "none"
  /\ storedTimer = NoItem
  /\ returned = NoReturn
  /\ highPriorityQueue = << >>
  /\ mediumPriorityQueue = << >>
  /\ lowPriorityQueue = << >>
  /\ pendingRequests = 0
  /\ retryQueue = << >>
  /\ isDestroyed = FALSE
  /\ reportTimer = constructorReturns
  /\ inflight = EmptyBag
  /\ storedQueue = NoItem
  /\ nextId = 1
  /\ monitorDestroyed = FALSE
  /\ sampled \in IF constructorReturns
                    THEN {shouldSample(below) : below \in BOOLEAN}
                  ELSE {FALSE}
  /\ released = {}
  /\ lastThrow = IF constructorReturns THEN NoThrow
                 ELSE [handler |-> "constructor", caught |-> FALSE]
  /\ beaconCalls = << >>
  /\ run = FreshRun

\* The event reaches Transport.send
Accepts(hook) == ~monitorDestroyed /\ hook = "pass"

\* Monitor.report(data), called by a producer
Report(kind, hook, beaconReturn) ==
  /\ NoMicrotask
  /\ monitorBuilt
  /\ nextId <= MaxEvents
  /\ LET data == NewEvent(kind)
         body == reportBody(Cur, data, hook, beaconReturn)
         s == safeExecute(Cur, body)
     IN /\ Becomes(s)
        /\ Threw("report", IF monitorDestroyed THEN Cur ELSE body, s)
        /\ nextId' = IF Accepts(hook) THEN nextId + 1 ELSE nextId
        /\ run' = IF Accepts(hook) THEN RunAfterSend(Cur, data, s) ELSE run
  /\ lastCall' = "report"
  /\ UNCHANGED << monitorDestroyed, sampled, options, host, monitorBuilt,
                  breadcrumbs, plugins, managerPlugins, appended,
                  storedTimer, returned >>

\* The setInterval callback of startReportTimer
ReportTick ==
  /\ NoMicrotask
  /\ monitorBuilt
  /\ reportTimer
  /\ LET s == processQueuedData(Cur)
     IN Becomes(s) /\ Threw("reportTimer", s, s) /\ run' = RunAfter(s)
  /\ CoordinatorIdle
  /\ UNCHANGED << nextId, monitorDestroyed, sampled, options, host >>

\* The setInterval callback of startRetryTimer; one interval then passes
RetryTick ==
  /\ NoMicrotask
  /\ monitorBuilt
  /\ Len(retryQueue) <= MaxRetryRecords
  /\ LET s == processRetryQueue(Cur)
     IN Becomes(elapse(s)) /\ Threw("retryTimer", s, s) /\ run' = RunAfter(s)
  /\ CoordinatorIdle
  /\ UNCHANGED << nextId, monitorDestroyed, sampled, options, host >>

\* Transport.flush(), called by the host
Flush ==
  /\ NoMicrotask
  /\ monitorBuilt
  /\ LET s == processQueuedData(Cur)
     IN Becomes(s) /\ Threw("flush", s, s) /\ run' = RunAfter(s)
  /\ CoordinatorIdle
  /\ UNCHANGED << nextId, monitorDestroyed, sampled, options, host >>

\* How the transports of a pending chain can end
Outcomes ==
  { "fetchOk", "fetchHttpError", "fetchReject",
    "xhrLoad", "xhrError", "xhrSendThrows", "xhrUnavailable" }

\* The outcomes a chain can have
CanEnd(chain, outcome) ==
  CASE chain = "resolved" -> outcome = "fetchOk"
    [] chain = "rejected" -> outcome = "fetchReject"
    [] chain = "fetch" -> outcome \in {"fetchOk", "fetchHttpError", "fetchReject"}
    [] chain = "fetchThenXHR" -> outcome # "fetchReject"

\* The promise sendBatch waits on is fulfilled
Fulfils(chain, outcome) ==
  CASE chain = "resolved" -> TRUE
    [] chain = "rejected" -> FALSE
    [] chain = "fetch" -> outcome \in {"fetchOk", "fetchHttpError"}
    [] chain = "fetchThenXHR" -> outcome # "xhrUnavailable"

\* The collector answered the request with success
Reaches(chain, outcome) ==
  chain \in {"fetch", "fetchThenXHR"} /\ outcome \in {"fetchOk", "xhrLoad"}

settle(s, entry, outcome) ==
  LET s1 == [s EXCEPT !.inflight = @ (-) SetToBag({entry})]
      s2 == IF Reaches(entry.chain, outcome) THEN Released(s1, entry.data) ELSE s1
  IN IF Fulfils(entry.chain, outcome) THEN onFulfilled(s2)
     ELSE onRejected(s2, entry)

\* The promise chain of one sendBatch settles and its reaction runs
Settle(entry, outcome) ==
  /\ BagIn(entry, inflight)
  /\ NoMicrotask \/ entry.chain \in SettledChains
  /\ CanEnd(entry.chain, outcome)
  /\ LET s == settle(Cur, entry, outcome)
     IN Becomes(s) /\ run' = RunAfter(s)
  /\ lastThrow' = NoThrow
  /\ CoordinatorIdle
  /\ UNCHANGED << nextId, monitorDestroyed, sampled, options, host >>

\* The listener of beforeunload, and of visibilitychange when hidden
teardownSignal(s, beaconReturn) ==
  flushAllQueues(saveDataToStorage(s), beaconReturn)

\* visibilitychange to hidden; the page lives on
PageHide(beaconReturn) ==
  /\ NoMicrotask
  /\ monitorBuilt
  /\ LET s == teardownSignal(Cur, beaconReturn)
     IN Becomes(s) /\ run' = RunAfter(s)
  /\ lastThrow' = NoThrow
  /\ CoordinatorIdle
  /\ UNCHANGED << nextId, monitorDestroyed, sampled, options, host >>

\* beforeunload, then the page is loaded again: a new Monitor and Transport
\* (where the constructor raises, the next page has no Monitor either: a
\* stuttering step)
Reload(beaconReturn, below) ==
  /\ NoMicrotask
  /\ monitorBuilt
  /\ LET s == constructed(teardownSignal(Cur, beaconReturn))
     IN Becomes(s) /\ run' = RunAfter(s)
  /\ monitorDestroyed' = FALSE
  /\ sampled' = shouldSample(below)
  /\ lastThrow' = NoThrow
  /\ breadcrumbs' = << >>
  /\ plugins' = << >>
  /\ managerPlugins' = << >>
  /\ appended' = 0
  /\ lastCall' = "other"
  /\ UNCHANGED << nextId, options, host, monitorBuilt, storedTimer, returned >>

\* Monitor.destroy()
MonitorDestroy(beaconReturn) ==
  /\ NoMicrotask
  /\ monitorBuilt
  /\ LET s == destroy(Cur, beaconReturn)
         out == uninstallAll(plugins)
     IN /\ Becomes([s EXCEPT !.hooks = out.calls])
        /\ run' = RunAfter(s)
        /\ plugins' = out.plugins
        /\ breadcrumbs' = IF out.thrown THEN breadcrumbs ELSE << >>
        /\ appended' = IF out.thrown THEN appended ELSE 0
        /\ Raised("destroy", out, FALSE)
  /\ monitorDestroyed' = TRUE
  /\ lastCall' = IF lastCall \in TeardownCalls THEN "destroyAgain" ELSE "destroy"
  /\ UNCHANGED << nextId, sampled, options, host, monitorBuilt, managerPlugins,
                  storedTimer, returned >>

\* Monitor.addBreadcrumb(breadcrumb), called by a producer
AddBreadcrumb ==
  /\ NoMicrotask
  /\ monitorBuilt
  /\ appended < MaxAppended
  /\ breadcrumbs' = addBreadcrumb(breadcrumbs, appended + 1)
  /\ appended' = appended + 1
  /\ hookCalls' = << >>
  /\ lastThrow' = NoThrow
  /\ lastCall' = "other"
  /\ EngineIdle
  /\ UNCHANGED << plugins, managerPlugins >>

\* Monitor.use(plugin), called by the host
Use(plugin) ==
  /\ NoMicrotask
  /\ monitorBuilt
  /\ LET out == use(plugins, plugin)
     IN plugins' = out.plugins /\ hookCalls' = out.calls
        /\ Raised("use", out, ~out.thrown)
  /\ lastCall' = "other"
  /\ EngineIdle
  /\ UNCHANGED << breadcrumbs, appended, managerPlugins >>

\* Monitor.unuse(pluginName), called by the host
Unuse(name) ==
  /\ NoMicrotask
  /\ monitorBuilt
  /\ LET out == unuse(plugins, name)
     IN plugins' = out.plugins /\ hookCalls' = out.calls
        /\ Raised("unuse", out, ~out.thrown)
  /\ lastCall' = "other"
  /\ EngineIdle
  /\ UNCHANGED << breadcrumbs, appended, managerPlugins >>

\* PluginManager.install(plugin), called by the host
ManagerInstall(plugin) ==
  /\ NoMicrotask
  /\ monitorBuilt
  /\ LET out == PluginManager_install(managerPlugins, plugin)
     IN managerPlugins' = out.plugins /\ hookCalls' = out.calls
        /\ Raised("install", out, ~out.thrown)
  /\ lastCall' = "other"
  /\ EngineIdle
  /\ UNCHANGED << breadcrumbs, appended, plugins >>

\* PluginManager.uninstall(pluginName), called by the host
ManagerUninstall(name) ==
  /\ NoMicrotask
  /\ monitorBuilt
  /\ LET out == PluginManager_uninstall(managerPlugins, name)
     IN managerPlugins' = out.plugins /\ hookCalls' = out.calls
        /\ Raised("uninstall", out, ~out.thrown)
  /\ lastCall' = "other"
  /\ EngineIdle
  /\ UNCHANGED << breadcrumbs, appended, plugins >>

\* PluginManager.destroy(), called by the host
ManagerDestroy ==
  /\ NoMicrotask
  /\ monitorBuilt
  /\ LET out == PluginManager_destroy(managerPlugins)
     IN managerPlugins' = out.plugins /\ hookCalls' = out.calls
        /\ Raised("managerDestroy", out, ~out.thrown)
  /\ lastCall' = "other"
  /\ EngineIdle
  /\ UNCHANGED << breadcrumbs, appended, plugins >>

Next ==
  \/ \E kind \in EventKinds, hook \in HookResults, b \in BOOLEAN :
       Report(kind, hook, b)
  \/ ReportTick
  \/ RetryTick
  \/ Flush
  \/ \E entry \in BagToSet(inflight), outcome \in Outcomes : Settle(entry, outcome)
  \/ \E b \in BOOLEAN : PageHide(b)
  \/ \E b \in BOOLEAN, below \in BOOLEAN : Reload(b, below)
  \/ \E b \in BOOLEAN : MonitorDestroy(b)

\* Every engine configuration with the default sampling rate
EngineConfigs == {c \in Configs : c.sampling = "1"}

\* The hosts that have localStorage
StorageHosts == {h \in Hosts : h.storage}

Init == InitOver(EngineConfigs, StorageHosts)

Spec == Init /\ [][Next]_vars

\* The coordinator under every sampling rate, with the smallest queues
MonitorConfigs ==
  {c \in Configs : c.batchSize = 1 /\ c.maxQueueSize = 1}

InitMonitor == InitOver(MonitorConfigs, StorageHosts)

SpecMonitor == InitMonitor /\ [][Next]_vars

\* Teardown and reload: events of every priority wait in the queues, on
\* every host
TeardownConfigs ==
  [ batchSize : {1},
    maxQueueSize : {MaxEvents + 1},
    enableImmediateReport : {FALSE},
    retryCount : {MaxRetryCount},
    retryInterval : {1},
    sampling : {"1"},
    appId : {"app"},
    reportUrl : {"url"},
    maxBreadcrumbsNum : {MaxBreadcrumbsNum} ]

\* The hosts in which the Monitor constructor returns
WorkingHosts == {h \in Hosts : ~h.storageRaises}

InitTeardown == InitOver(TeardownConfigs, WorkingHosts)

SpecTeardown == InitTeardown /\ [][Next]_vars

\* The coordinator's intake under every configuration a host can pass
\* (nothing checks it: an empty appId or reportUrl stands for a missing one),
\* on every host
DefaultConfig ==
  [ batchSize |-> 1, maxQueueSize |-> 1, enableImmediateReport |-> TRUE,
    retryCount |-> MaxRetryCount, retryInterval |-> 1, sampling |-> "1",
    appId |-> "app", reportUrl |-> "url",
    maxBreadcrumbsNum |-> MaxBreadcrumbsNum ]

CoordinatorConfigs ==
  {[DefaultConfig EXCEPT !.sampling = rate] : rate \in {"0", "0.5", "1", "1.5"}}
  \cup {[DefaultConfig EXCEPT !.appId = ""], [DefaultConfig EXCEPT !.reportUrl = ""]}
  \cup {[DefaultConfig EXCEPT !.enableImmediateReport = FALSE]}

CoordinatorKinds ==
  {kind \in EventKinds : kind.payload \in {"plain", "circular"}}

NextCoordinator ==
  \/ \E kind \in CoordinatorKinds, hook \in HookResults, b \in BOOLEAN :
       Report(kind, hook, b)
  \/ ReportTick
  \/ \E entry \in BagToSet(inflight), outcome \in Outcomes : Settle(entry, outcome)
  \/ \E b \in BOOLEAN : PageHide(b)
  \/ \E b \in BOOLEAN, below \in BOOLEAN : Reload(b, below)
  \/ \E b \in BOOLEAN : MonitorDestroy(b)

InitCoordinator == InitOver(CoordinatorConfigs, Hosts)

SpecCoordinator == InitCoordinator /\ [][NextCoordinator]_vars

\* The breadcrumb history and the two plugin registries, under every cap of
\* the history
HistoryConfigs ==
  {[DefaultConfig EXCEPT !.maxBreadcrumbsNum = cap] : cap \in 0..MaxBreadcrumbsNum}

NextPlugins ==
  \/ AddBreadcrumb
  \/ \E plugin \in Plugins : Use(plugin)
  \/ \E name \in PluginNames : Unuse(name)
  \/ \E plugin \in Plugins : ManagerInstall(plugin)
  \/ \E name \in PluginNames : ManagerUninstall(name)
  \/ ManagerDestroy
  \/ \E b \in BOOLEAN : MonitorDestroy(b)
  \/ \E b \in BOOLEAN, below \in BOOLEAN : Reload(b, below)

InitPlugins == InitOver(HistoryConfigs, WorkingHosts)

SpecPlugins == InitPlugins /\ [][NextPlugins]_vars

----------------------------------------------------------------------------
(* The engine with sends in flight *)

\* The most urgent sends in flight when the slice starts
MaxBusy == 4

\* An error event reported before the slice starts
EarlierEvent(i) ==
  [ id |-> MaxEvents + i, type |-> "error", priority |-> NoPriority,
    breadcrumbs |-> << >>, payload |-> "plain" ]

\* sendImmediately was called for n events and no request has been answered:
\* sendBatch counted each one and started its fetch (the host has no
\* sendBeacon)
EarlierSends(n) ==
  SetToBag({ [data |-> << EarlierEvent(i) >>, chain |-> "fetch", attempts |-> 1] :
             i \in 1..n })

BusyConfigs ==
  {[DefaultConfig EXCEPT !.batchSize = size, !.maxQueueSize = MaxEvents + 1] :
     size \in 1..MaxBatchSize}

\* The hosts without navigator.sendBeacon in which the Monitor constructor
\* returns
FetchHosts == {h \in WorkingHosts : ~h.beacon}

\* The events that wait in the medium and the low queue
QueuedKinds == {kind \in EventKinds : PriorityOf(kind) # "high"}

\* Every request is answered
Answers == {"fetchOk", "xhrLoad"}

InitBusy ==
  /\ options \in BusyConfigs
  /\ host \in FetchHosts
  /\ monitorBuilt = TRUE
  /\ breadcrumbs = << >>
  /\ plugins = << >>
  /\ managerPlugins = << >>
  /\ appended = 0
  /\ hookCalls = << >>
  /\ lastCall = "report"
  /\ storedTimer = NoItem
  /\ returned = NoReturn
  /\ highPriorityQueue = << >>
  /\ mediumPriorityQueue = << >>
  /\ lowPriorityQueue = << >>
  /\ pendingRequests \in 0..MaxBusy
  /\ retryQueue = << >>
  /\ isDestroyed = FALSE
  /\ reportTimer = TRUE
  /\ inflight = EarlierSends(pendingRequests)
  /\ storedQueue = NoItem
  /\ nextId = 1
  /\ monitorDestroyed = FALSE
  /\ sampled = TRUE
  /\ released = {}
  /\ lastThrow = NoThrow
  /\ beaconCalls = << >>
  /\ run = FreshRun

NextBusy ==
  \/ \E kind \in QueuedKinds : Report(kind, "pass", FALSE)
  \/ ReportTick
  \/ Flush
  \/ \E entry \in BagToSet(inflight), outcome \in Answers : Settle(entry, outcome)

SpecBusy == InitBusy /\ [][NextBusy]_vars

----------------------------------------------------------------------------
(* Breadcrumbs and events *)

\* The events that serialise as they are
PlainKinds == {kind \in EventKinds : kind.payload = "plain"}

\* Events wait in the queues (no immediate report) while the history changes
CrumbConfigs == {[DefaultConfig EXCEPT !.enableImmediateReport = FALSE,
                                       !.maxQueueSize = MaxEvents + 1]}

NextCrumbs ==
  \/ AddBreadcrumb
  \/ \E kind \in PlainKinds, b \in BOOLEAN : Report(kind, "pass", b)
  \/ ReportTick
  \/ \E entry \in BagToSet(inflight), outcome \in Outcomes : Settle(entry, outcome)
  \/ \E b \in BOOLEAN : PageHide(b)
  \/ \E b \in BOOLEAN, below \in BOOLEAN : Reload(b, below)
  \/ \E b \in BOOLEAN : MonitorDestroy(b)

InitCrumbs == InitOver(CrumbConfigs, WorkingHosts)

SpecCrumbs == InitCrumbs /\ [][NextCrumbs]_vars

----------------------------------------------------------------------------
(* The timers alone *)

\* Every event waits in a queue: no immediate report, no overflow flush
TickConfigs ==
  {[DefaultConfig EXCEPT !.enableImmediateReport = FALSE,
                         !.maxQueueSize = MaxEvents + 1,
                         !.batchSize = size] : size \in 1..MaxBatchSize}

\* The events that serialise
SerialKinds == {kind \in EventKinds : kind.payload \in {"plain", "lossy"}}

\* Producers, the two timers and the network; no teardown signal, no destroy
NextTicks ==
  \/ \E kind \in SerialKinds : Report(kind, "pass", FALSE)
  \/ ReportTick
  \/ RetryTick
  \/ \E entry \in BagToSet(inflight), outcome \in Outcomes : Settle(entry, outcome)

InitTicks == InitOver(TickConfigs, WorkingHosts)

\* setInterval keeps calling both timer callbacks, and every request ends
\* (sendFetch aborts at the timeout, XMLHttpRequest has its own)
SpecTicks ==
  /\ InitTicks
  /\ [][NextTicks]_vars
  /\ WF_vars(ReportTick)
  /\ WF_vars(RetryTick)
  /\ WF_vars(\E entry \in BagToSet(inflight), outcome \in Outcomes :
               Settle(entry, outcome))

----------------------------------------------------------------------------
(* The teardown listeners, fired one after the other *)

\* history: the last handler was a teardown listener (again: the one before
\* it too)
SignalCalls == {"signal", "signalAgain"}

\* beforeunload that the page survives, or visibilitychange to hidden: the
\* two listeners of setupBeforeUnload have the same body
TeardownSignal(beaconReturn) ==
  /\ NoMicrotask
  /\ monitorBuilt
  /\ LET s == teardownSignal(Cur, beaconReturn)
     IN Becomes(s) /\ run' = RunAfter(s)
  /\ lastThrow' = NoThrow
  /\ lastCall' = IF lastCall \in SignalCalls THEN "signalAgain" ELSE "signal"
  /\ UNCHANGED << nextId, monitorDestroyed, sampled, options, host,
                  monitorBuilt, breadcrumbs, plugins, managerPlugins, appended,
                  storedTimer, returned >>

\* Events wait in the queues, the timers tick, the network answers and the
\* page is hidden or left
NextSignals ==
  \/ \E kind \in EventKinds, b \in BOOLEAN : Report(kind, "pass", b)
  \/ ReportTick
  \/ RetryTick
  \/ \E entry \in BagToSet(inflight), outcome \in Outcomes : Settle(entry, outcome)
  \/ \E b \in BOOLEAN : TeardownSignal(b)

InitSignals == InitOver(TeardownConfigs, WorkingHosts)

SpecSignals == InitSignals /\ [][NextSignals]_vars

----------------------------------------------------------------------------
(* WebMonitorSDK: the facade *)

isBot == host.bot

\* The hosts whose user agent is classified as a bot
BotHosts == {[h EXCEPT !.bot = TRUE] : h \in Hosts}

\* WebMonitorSDK.isInitialized: set by init() once the Monitor is built (on a
\* bot host init() is never called), reset by destroy(). Exact where
\* Monitor.destroy does not raise, as with FacadePlugins.
isInitialized == ~isBot /\ monitorBuilt /\ ~monitorDestroyed

\* The plugins whose uninstall() returns
FacadePlugins == {p \in Plugins : p.uninstall # "raises"}

\* new WebMonitorSDK(config) on a bot host: this.monitor = {}; no Monitor, no
\* Transport and no collector is constructed
InitBot(configs) ==
  /\ options \in configs
  /\ host \in BotHosts
  /\ monitorBuilt = FALSE
  /\ breadcrumbs = << >>
  /\ plugins = << >>
  /\ managerPlugins = << >>
  /\ appended = 0
  /\ hookCalls = << >>
  /\ lastCall = "none"
  /\ storedTimer = NoItem
  /\ returned = NoReturn
  /\ highPriorityQueue = << >>
  /\ mediumPriorityQueue = << >>
  /\ lowPriorityQueue = << >>
  /\ pendingRequests = 0
  /\ retryQueue = << >>
  /\ isDestroyed = FALSE
  /\ reportTimer = FALSE
  /\ inflight = EmptyBag
  /\ storedQueue = NoItem
  /\ nextId = 1
  /\ monitorDestroyed = FALSE
  /\ sampled = FALSE
  /\ released = {}
  /\ lastThrow = NoThrow
  /\ beaconCalls = << >>
  /\ run = FreshRun

\* A facade method on a bot host. this.monitor is {}: calling a method of it
\* raises a TypeError (undefined is not a function), reading a property of
\* it gives undefined.
OnBot(method, raises) ==
  /\ isBot
  /\ lastThrow' = IF raises THEN [handler |-> method, caught |-> FALSE]
                  ELSE NoThrow
  /\ lastCall' = method
  /\ hookCalls' = << >>
  /\ EngineIdle
  /\ UNCHANGED << breadcrumbs, plugins, managerPlugins, appended >>

\* WebMonitorSDK.report(data): this.monitor.report(data)
SdkReport(kind, hook, beaconReturn) ==
  IF isBot THEN OnBot("report", TRUE) ELSE Report(kind, hook, beaconReturn)

\* WebMonitorSDK.use(plugin): this.monitor.use(plugin)
SdkUse(plugin) ==
  IF isBot THEN OnBot("use", TRUE) ELSE Use(plugin)

\* WebMonitorSDK.unuse(pluginName): this.monitor.unuse(pluginName)
SdkUnuse(name) ==
  IF isBot THEN OnBot("unuse", TRUE) ELSE Unuse(name)

\* WebMonitorSDK.setUser(userId): this.monitor['userId'] = userId, then
\* this.monitor.addBreadcrumb(...)
SdkSetUser ==
  IF isBot THEN OnBot("setUser", TRUE) ELSE AddBreadcrumb

\* WebMonitorSDK.destroy(): returns at once unless isInitialized
SdkDestroy(beaconReturn) ==
  IF isBot THEN OnBot("destroy", FALSE)
  ELSE isInitialized /\ MonitorDestroy(beaconReturn)

\* WebMonitorSDK.getSessionId(): this.monitor.currentSessionId
SdkGetSessionId ==
  /\ isBot \/ monitorBuilt
  /\ NoMicrotask
  /\ lastThrow' = NoThrow
  /\ lastCall' = "getSessionId"
  /\ hookCalls' = << >>
  /\ returned' = [ op |-> "getSessionId",
                   value |-> IF isBot THEN "undefined" ELSE "session" ]
  /\ beaconCalls' = << >>
  /\ UNCHANGED << highPriorityQueue, mediumPriorityQueue, lowPriorityQueue,
                  pendingRequests, retryQueue, isDestroyed, reportTimer,
                  inflight, storedQueue, released, run, nextId,
                  monitorDestroyed, sampled, options, host, monitorBuilt,
                  storedTimer, breadcrumbs, plugins, managerPlugins,
                  appended >>

\* The host calls the facade, on a page of a person and on a page loaded by a
\* bot; the report timer ticks and the network answers
NextFacade ==
  \/ \E kind \in PlainKinds, b \in BOOLEAN : SdkReport(kind, "pass", b)
  \/ \E plugin \in FacadePlugins : SdkUse(plugin)
  \/ \E name \in PluginNames : SdkUnuse(name)
  \/ SdkSetUser
  \/ \E b \in BOOLEAN : SdkDestroy(b)
  \/ SdkGetSessionId
  \/ ReportTick
  \/ \E entry \in BagToSet(inflight), outcome \in Outcomes : Settle(entry, outcome)

InitFacade ==
  \/ InitOver({DefaultConfig}, WorkingHosts)
  \/ InitBot({DefaultConfig})

SpecFacade == InitFacade /\ [][NextFacade]_vars

----------------------------------------------------------------------------
(* ErrorMonitor: the interception of fetch and XMLHttpRequest *)

\* The error events handleAPIError reports while the requests of one chain
\* run to their end: one when fetch is answered with a status that is not ok,
\* one when fetch rejects (every XMLHttpRequest outcome follows a rejected
\* fetch), one more when the XMLHttpRequest fires 'error'. A chain settled
\* by the beacon issues no request. No URL is exempt.
apiErrors(chain, outcome) ==
  CASE chain \in SettledChains -> 0
    [] outcome = "fetchOk" -> 0
    [] outcome = "xhrError" -> 2
    [] OTHER -> 1

\* reportError(errorData): the event handed to Monitor.report
ApiErrorEvent(id, crumbs) ==
  [ id |-> id, type |-> "error", priority |-> NoPriority,
    breadcrumbs |-> crumbs, payload |-> "plain" ]

\* n times: reportError(errorData), then monitor.addBreadcrumb(...)
RECURSIVE reportApiErrors(_, _, _)
reportApiErrors(acc, n, beaconReturn) ==
  IF n = 0 THEN acc
  ELSE LET data == ApiErrorEvent(acc.id, acc.crumbs)
           body == reportBody(acc.s, data, "pass", beaconReturn)
       IN reportApiErrors(
            [ s |-> safeExecute(acc.s, body),
              id |-> acc.id + 1,
              crumbs |-> addBreadcrumb(acc.crumbs, acc.appended + 1),
              appended |-> acc.appended + 1 ],
            n - 1, beaconReturn)

\* The requests of one sendBatch end under the interception: the error
\* monitor reports what it saw, then the reaction of sendBatch runs
SettleWatched(entry, outcome, beaconReturn) ==
  /\ BagIn(entry, inflight)
  /\ NoMicrotask \/ entry.chain \in SettledChains
  /\ CanEnd(entry.chain, outcome)
  /\ monitorBuilt
  /\ nextId + apiErrors(entry.chain, outcome) <= MaxEvents + 1
  /\ appended + apiErrors(entry.chain, outcome) <= MaxAppended
  /\ LET out == reportApiErrors(
                  [ s |-> Cur, id |-> nextId, crumbs |-> breadcrumbs,
                    appended |-> appended ],
                  apiErrors(entry.chain, outcome), beaconReturn)
         s == settle(out.s, entry, outcome)
     IN /\ Becomes(s)
        /\ run' = RunAfter(s)
        /\ nextId' = out.id
        /\ breadcrumbs' = out.crumbs
        /\ appended' = out.appended
  /\ lastThrow' = NoThrow
  /\ lastCall' = "other"
  /\ UNCHANGED << monitorDestroyed, sampled, options, host, monitorBuilt,
                  plugins, managerPlugins, storedTimer, returned >>

\* The SDK with its error monitor (enableError) and without its performance
\* monitor: the host reports, the report timer ticks, the network answers
NextWatched ==
  \/ \E kind \in PlainKinds, b \in BOOLEAN : Report(kind, "pass", b)
  \/ ReportTick
  \/ \E entry \in BagToSet(inflight), outcome \in Outcomes, b \in BOOLEAN :
       SettleWatched(entry, outcome, b)

InitWatched == InitOver({DefaultConfig}, WorkingHosts)

SpecWatched == InitWatched /\ [][NextWatched]_vars

----------------------------------------------------------------------------
(* StorageManager and the timer start, called directly *)

\* The arrays a caller hands to StorageManager.save
StoredEvent(id, kind) ==
  [ id |-> id, type |-> kind.type, priority |-> kind.priority,
    breadcrumbs |-> << >>, payload |-> kind.payload ]

Batches ==
  {<< >>}
  \cup {<< StoredEvent(1, k) >> : k \in EventKinds}
  \cup {<< StoredEvent(1, k1), StoredEvent(2, k2) >> : k1, k2 \in EventKinds}

\* What a storage call leaves of everything but localStorage
OnlyStorage ==
  /\ lastThrow' = NoThrow
  /\ beaconCalls' = << >>
  /\ hookCalls' = << >>
  /\ lastCall' = "other"
  /\ UNCHANGED << highPriorityQueue, mediumPriorityQueue, lowPriorityQueue,
                  pendingRequests, retryQueue, isDestroyed, reportTimer,
                  inflight, released, run, nextId, monitorDestroyed, sampled,
                  options, host, monitorBuilt, breadcrumbs, plugins,
                  managerPlugins, appended >>

\* storageManager.save(data)
StorageSave(data) ==
  /\ storedQueue' = save(Cur, data).store
  /\ returned' = [op |-> "save", data |-> data, value |-> SaveResult(data)]
  /\ UNCHANGED storedTimer
  /\ OnlyStorage

\* storageManager.load()
StorageLoad ==
  /\ storedQueue' = loadEffect(Cur).store
  /\ returned' = [op |-> "load", item |-> storedQueue, value |-> load(Cur)]
  /\ UNCHANGED storedTimer
  /\ OnlyStorage

\* storageManager.clear()
StorageClear ==
  /\ storedQueue' = clear(Cur).store
  /\ returned' = [op |-> "clear"]
  /\ UNCHANGED storedTimer
  /\ OnlyStorage

\* storageManager.saveLastReportTime(Date.now())
StorageSaveLastReportTime(now) ==
  /\ storedTimer' = saveLastReportTime(storedTimer, now)
  /\ returned' = [op |-> "saveLastReportTime", value |-> saveLastReportTimeResult]
  /\ UNCHANGED storedQueue
  /\ OnlyStorage

\* storageManager.getLastReportTime()
StorageGetLastReportTime ==
  /\ returned' = [op |-> "getLastReportTime",
                  value |-> getLastReportTime(storedTimer)]
  /\ UNCHANGED << storedQueue, storedTimer >>
  /\ OnlyStorage

\* storageManager.clearTimer()
StorageClearTimer ==
  /\ storedTimer' = clearTimer(storedTimer)
  /\ returned' = [op |-> "clearTimer"]
  /\ UNCHANGED storedQueue
  /\ OnlyStorage

\* startReportTimer() of a Transport constructed with this reportInterval
\* when Date.now() reads now
StartReportTimer(now, interval) ==
  /\ returned' = [ op |-> "startReportTimer", now |-> now, interval |-> interval,
                   lastReportTime |-> getLastReportTime(storedTimer),
                   value |-> startReportTimer(now, interval,
                                              getLastReportTime(storedTimer)) ]
  /\ UNCHANGED << storedQueue, storedTimer >>
  /\ OnlyStorage

\* Another script of the page's origin leaves text that is not the SDK's under
\* one of the two keys
ForeignWrite(key) ==
  /\ ~host.storageRaises
  /\ storedQueue' = IF key = "web_monitor_queue"
                      THEN << [parses |-> FALSE, value |-> << >>] >>
                    ELSE storedQueue
  /\ storedTimer' = IF key = "web_monitor_timer"
                      THEN << [parses |-> FALSE, value |-> 0] >>
                    ELSE storedTimer
  /\ returned' = NoReturn
  /\ OnlyStorage

NextStorage ==
  \/ \E data \in Batches : StorageSave(data)
  \/ StorageLoad
  \/ StorageClear
  \/ \E now \in 1..MaxClock : StorageSaveLastReportTime(now)
  \/ StorageGetLastReportTime
  \/ StorageClearTimer
  \/ \E now \in 1..MaxClock, interval \in 1..MaxInterval :
       StartReportTimer(now, interval)
  \/ \E key \in {"web_monitor_queue", "web_monitor_timer"} : ForeignWrite(key)

InitStorage == InitOver({DefaultConfig}, Hosts)

SpecStorage == InitStorage /\ [][NextStorage]_vars

----------------------------------------------------------------------------
(* Monitor.report *)

\* C1: no exception escapes a call of Monitor.report, whatever the
\* configuration, the payload and the coordinator's state (sampled or not,
\* destroyed or not): an exception raised by beforeSend or by Transport.send
\* is caught inside report.
C1_ReportNeverThrows == lastThrow.handler = "report" => lastThrow.caught

\* C1: report() has just returned although Transport.send raised in it (the
\* batch could not be serialised, the in-flight count was already raised)
C1_SendRaisedInReport ==
  /\ lastThrow = [handler |-> "report", caught |-> TRUE]
  /\ pendingRequests > BagCardinality(inflight)
  /\ ~sampled

----------------------------------------------------------------------------
(* Custody of accepted events *)

StoredIds ==
  IF storedQueue = NoItem \/ ~storedQueue[1].parses THEN {}
  ELSE {storedQueue[1].value[i].id : i \in 1..Len(storedQueue[1].value)}

CustodyIds ==
  IdsOf(highPriorityQueue \o mediumPriorityQueue \o lowPriorityQueue)
    \cup UNION {IdsOf(e.data) : e \in BagToSet(inflight)}
    \cup UNION {IdsOf(retryQueue[i].data) : i \in 1..Len(retryQueue)}
    \cup StoredIds

\* C2: every event Transport.send was given is still held by the engine (in
\* a priority queue, an in-flight batch, a retry record or the stored item),
\* unless a transport reported success for a batch containing it or the retry
\* record of its batch was dropped at the retry limit.
C2_CustodyUntilReleased ==
  \A id \in 1..(nextId - 1) : id \in CustodyIds \cup released

----------------------------------------------------------------------------
(* Transport.send *)

\* The effective priority as the specification words it
EffectivePriority(e) ==
  IF e.priority \in Priorities THEN e.priority
  ELSE CASE e.type = "error" -> "high"
         [] e.type = "performance" -> "medium"
         [] e.type = "behavior" -> "low"

QueueOf(priority) ==
  CASE priority = "high" -> highPriorityQueue
    [] priority = "medium" -> mediumPriorityQueue
    [] priority = "low" -> lowPriorityQueue

Queues == << highPriorityQueue, mediumPriorityQueue, lowPriorityQueue >>

\* What C3 says of the step send(e) takes
SendContract(e) ==
  LET p == EffectivePriority(e)
  IN IF p = "high" /\ options.enableImmediateReport
       THEN /\ \E entry \in BagToSet(inflight') :
                 /\ entry.data = << e >>
                 /\ inflight' = inflight (+) SetToBag({entry})
            /\ UNCHANGED Queues
       ELSE /\ \A q \in Priorities \ {p} : e.id \notin IdsOf(QueueOf(q)')
            /\ Len(highPriorityQueue) + Len(mediumPriorityQueue)
                 + Len(lowPriorityQueue) + 1 < options.maxQueueSize
               => /\ QueueOf(p)' = Append(QueueOf(p), e)
                  /\ \A q \in Priorities \ {p} : QueueOf(q)' = QueueOf(q)
                  /\ UNCHANGED << inflight, pendingRequests, retryQueue >>

\* C3: send(e) on a live engine either starts exactly one transmission
\* carrying [e] and leaves the queues alone (effective priority high,
\* immediate reporting enabled), or puts e in no queue but that of its
\* effective priority and, while the total stays below maxQueueSize, appends
\* e to the tail of that queue, leaves the other queues alone and starts no
\* transmission.
C3_SendContract ==
  [][\A kind \in EventKinds, b \in BOOLEAN :
       (Report(kind, "pass", b) /\ ~monitorDestroyed)
         => SendContract(NewEvent(kind))]_vars

----------------------------------------------------------------------------
(* Failed deliveries and the retry queue *)

\* Every transport strategy tried for the batch has failed
FailedEverywhere(chain, outcome) ==
  \/ chain = "rejected"
  \/ chain = "fetch" /\ outcome = "fetchReject"
  \/ chain = "fetchThenXHR"
       /\ outcome \in {"xhrError", "xhrSendThrows", "xhrUnavailable"}

\* C4: when the delivery of a batch has failed on every transport tried for
\* it, one retry record holding exactly that batch is appended to the retry
\* queue, whatever the priority of the batch.
C4_FailedBatchGetsRetryRecord ==
  [][\A entry \in BagToSet(inflight), outcome \in Outcomes :
       (Settle(entry, outcome) /\ FailedEverywhere(entry.chain, outcome))
         => /\ Len(retryQueue') = Len(retryQueue) + 1
            /\ retryQueue'[Len(retryQueue')].data = entry.data]_vars

\* C5: no batch is transmitted more than 1 + retryCount times: the first
\* transmission and retryCount resends, each made after the one before failed.
C5_RetryBudget ==
  \A entry \in BagToSet(inflight) : entry.attempts <= 1 + options.retryCount

\* C6: when the resend of a retry record succeeds, no retry record holding
\* that batch is left in the retry queue (so it is not transmitted again).
C6_ResendSuccessRemovesRecord ==
  [][\A entry \in BagToSet(inflight), outcome \in Outcomes :
       (Settle(entry, outcome) /\ entry.attempts > 1
          /\ Reaches(entry.chain, outcome))
         => \A i \in 1..Len(retryQueue') : retryQueue'[i].data # entry.data]_vars

----------------------------------------------------------------------------
(* The queue ceiling *)

\* C9: between handlers (after send() has returned, after construction) the
\* three priority queues together hold at most maxQueueSize events.
C9_QueueCeiling ==
  Len(highPriorityQueue) + Len(mediumPriorityQueue) + Len(lowPriorityQueue)
    <= options.maxQueueSize

\* C10: a run of maxQueueSize + 1 medium/low send() calls that began with
\* empty queues, with no other handler in between, has triggered exactly one
\* forced flush cycle.
C10_OneForcedFlush ==
  (run.active /\ run.sends = options.maxQueueSize + 1) => run.flushes = 1

----------------------------------------------------------------------------
(* Teardown and reload *)

Resident == highPriorityQueue \o mediumPriorityQueue \o lowPriorityQueue

\* StorageManager.save accepts the events: localStorage is there, the events
\* serialise and the text is within the size limit
Persistable(events) ==
  /\ host.storage
  /\ \A i \in 1..Len(events) : events[i].payload \notin {"circular", "huge"}

\* The one call of navigator.sendBeacon a teardown signal makes for events
TeardownBeacon(events) ==
  IF events # << >> /\ host.beacon
       /\ \A i \in 1..Len(events) : events[i].payload # "circular"
    THEN << JsonStringify(events) >> ELSE << >>

\* C7: the listener of a page-hide or unload signal is one step that starts
\* no request and touches neither the in-flight count nor the retry queue.
\* With no event resident it does nothing.  Otherwise it hands high, then
\* medium, then low to the store, which keeps them if localStorage is
\* available, they serialise and the text is within the size limit; it calls
\* navigator.sendBeacon exactly once with those same events if the host has
\* it and the events serialise, and not at all otherwise; and it leaves the
\* three queues empty.
C7_TeardownStep ==
  [][/\ \A b \in BOOLEAN :
          PageHide(b) =>
            /\ UNCHANGED << inflight, pendingRequests, retryQueue >>
            /\ beaconCalls' = TeardownBeacon(Resident)
            /\ Resident' = << >>
            /\ storedQueue' = IF Resident # << >> /\ Persistable(Resident)
                                THEN Item(JsonStringify(Resident))
                                ELSE storedQueue
     /\ \A b \in BOOLEAN, below \in BOOLEAN :
          Reload(b, below) => beaconCalls' = TeardownBeacon(Resident)]_vars

\* C7: a page-hide listener has just stored two events and given the same
\* two to navigator.sendBeacon, and the queues are empty
C7_StoredAndBeaconed ==
  /\ storedQueue # NoItem
  /\ beaconCalls = << storedQueue[1].value >>
  /\ Len(storedQueue[1].value) = 2
  /\ Resident = << >>
  /\ ~isDestroyed

\* C7 as the specification words it: at a page-hide signal with events
\* resident, the store holds them afterwards, exactly one beacon call carrying
\* them was made and the queues are empty.
C7_AlwaysStoredAndBeaconed ==
  [][\A b \in BOOLEAN :
       (PageHide(b) /\ Resident # << >>) =>
          /\ storedQueue' = Item(JsonStringify(Resident))
          /\ beaconCalls' = << JsonStringify(Resident) >>
          /\ Resident' = << >>]_vars

\* The events of a sequence whose effective priority is p, in their order
OfPriority(events, p) ==
  SelectSeq(events, LAMBDA e : EffectivePriority(e) = p)

\* The queues hold exactly these events, each in the queue of its priority
QueuesHold(events) ==
  /\ highPriorityQueue' = OfPriority(events, "high")
  /\ mediumPriorityQueue' = OfPriority(events, "medium")
  /\ lowPriorityQueue' = OfPriority(events, "low")

\* C8: when the resident events are stored at unload and a new engine is
\* constructed, its queues hold exactly the events as JSON renders them (what
\* JSON.parse gives back for the text JSON.stringify wrote), each in the
\* queue of its effective priority and in the order they had before, and the
\* stored item is gone.
C8_RestoreRoundTrip ==
  [][\A b \in BOOLEAN, below \in BOOLEAN :
       (Reload(b, below) /\ Resident # << >> /\ Persistable(Resident)) =>
          /\ QueuesHold(JsonParse(JsonStringify(Resident)))
          /\ storedQueue' = NoItem]_vars

\* C8: a new engine has restored a medium event whose payload JSON has
\* rewritten and a high event that had been sent after it
C8_RestoredTwo ==
  /\ Len(highPriorityQueue) = 1
  /\ Len(mediumPriorityQueue) = 1
  /\ mediumPriorityQueue[1].payload = "degraded"
  /\ highPriorityQueue[1].id > mediumPriorityQueue[1].id
  /\ storedQueue = NoItem
  /\ pendingRequests = 0

\* C8 as the specification words it: the restored events have the same field
\* values as the events before teardown.
C8_RestoreIdentical ==
  [][\A b \in BOOLEAN, below \in BOOLEAN :
       (Reload(b, below) /\ Resident # << >> /\ Persistable(Resident)) =>
          /\ QueuesHold(Resident)
          /\ storedQueue' = NoItem]_vars

----------------------------------------------------------------------------
(* Sampling, beforeSend and teardown of the coordinator *)

\* The engine holds what it held: the three priority sequences, the in-flight
\* requests, the retry set and the stored queue
EngineHolds ==
  UNCHANGED << highPriorityQueue, mediumPriorityQueue, lowPriorityQueue,
               pendingRequests, inflight, retryQueue, storedQueue >>

\* C11: in a session whose sampling decision at initialization was negative,
\* every report() is a no-op: it does not invoke beforeSend and hands no event
\* to the delivery engine, so nothing is queued, transmitted or persisted.
C11_UnsampledReportNoOp ==
  [][\A kind \in EventKinds, hook \in HookResults, b \in BOOLEAN :
       (Report(kind, hook, b) /\ ~sampled) =>
          /\ hookCalls' = << >>
          /\ nextId' = nextId
          /\ EngineHolds
          /\ beaconCalls' = << >>]_vars

\* C12: a report() whose beforeSend hook returns null delivers nothing: the
\* three priority sequences, the in-flight requests, the retry set and the
\* stored queue are what they were before the call, no beacon is handed over
\* and no event identity is consumed.
C12_NullSuppressesDelivery ==
  [][\A kind \in EventKinds, b \in BOOLEAN :
       (Report(kind, "null", b)
          /\ hookCalls' = << Call("beforeSend", "event", "null") >>) =>
          /\ EngineHolds
          /\ beaconCalls' = << >>
          /\ nextId' = nextId]_vars

\* beforeSend has just returned null while the engine holds a retry record
C12_NullWhileRetrying ==
  /\ lastCall = "report"
  /\ hookCalls = << Call("beforeSend", "event", "null") >>
  /\ retryQueue # << >>

\* C14: once Monitor.destroy() has run, no new event is accepted: every later
\* report() invokes no beforeSend, consumes no event identity and leaves the
\* engine as it was, and the three priority sequences stay empty whatever
\* handler runs.
C14_NoIntakeAfterTeardown ==
  [][(monitorDestroyed /\ monitorDestroyed') =>
       /\ highPriorityQueue' = << >>
       /\ mediumPriorityQueue' = << >>
       /\ lowPriorityQueue' = << >>
       /\ \A kind \in EventKinds, hook \in HookResults, b \in BOOLEAN :
            Report(kind, hook, b) =>
              /\ hookCalls' = << >>
              /\ nextId' = nextId
              /\ EngineHolds
              /\ beaconCalls' = << >>]_vars

\* report() has just been called on a destroyed Monitor
C14_ReportedAfterTeardown ==
  /\ monitorDestroyed
  /\ isDestroyed
  /\ lastCall = "report"

----------------------------------------------------------------------------
(* Breadcrumb history *)

\* The last n of the entries 1..appended, in append order
LastAppended(n) == [i \in 1..n |-> appended - n + i]

\* C13: after N addBreadcrumb() calls with cap C, for every C >= 0, the
\* breadcrumb history is the last min(N, C) appended entries in append order
\* (so its length never exceeds C and the oldest entry is the one evicted).
C13_LastMinOfAppended ==
  breadcrumbs = LastAppended(Min(appended, options.maxBreadcrumbsNum))

----------------------------------------------------------------------------
(* Plugins and teardown *)

\* No exception escapes the handler that has just run
NothingEscapes == lastThrow'.handler # "none" => lastThrow'.caught

\* The uninstall hook of every plugin of the registry that has one is among
\* the hooks the handler invoked, and it invoked no other
EachUninstalledOnce(registry) ==
  /\ \A i \in 1..Len(registry) :
       registry[i].uninstall # "none" =>
         \E j \in 1..Len(hookCalls') :
           hookCalls'[j] = Call("uninstall", registry[i].name, registry[i].uninstall)
  /\ Len(hookCalls')
       = Cardinality({i \in 1..Len(registry) : registry[i].uninstall # "none"})

\* C15: Monitor.destroy() is idempotent: a second call made directly after
\* the first leaves the priority sequences, the retry set, the store, the
\* plugin registry, the breadcrumb history and the destroyed flags as the
\* first call left them, starts no transmission, invokes no uninstall hook
\* again and returns normally, also when an uninstall hook raised in the
\* first call.
C15_TeardownIdempotent ==
  [][\A b \in BOOLEAN :
       (MonitorDestroy(b) /\ lastCall \in TeardownCalls) =>
          /\ EngineHolds
          /\ UNCHANGED << plugins, breadcrumbs, isDestroyed, monitorDestroyed >>
          /\ beaconCalls' = << >>
          /\ hookCalls' = << >>
          /\ lastThrow' = NoThrow]_vars

\* C16: install(x) / use(x) of a name that is registered changes nothing and
\* invokes no hook; otherwise x's install hook is invoked exactly once and x
\* is registered if and only if the hook returned normally.  No exception
\* escapes to the caller.
C16_InstallContract ==
  [][\A x \in Plugins :
       /\ Use(x) =>
            /\ IF has(plugins, x.name)
                 THEN plugins' = plugins /\ hookCalls' = << >>
               ELSE /\ hookCalls' = << Call("install", x.name, x.install) >>
                    /\ has(plugins', x.name) <=> x.install = "ok"
            /\ NothingEscapes
       /\ ManagerInstall(x) =>
            /\ IF has(managerPlugins, x.name)
                 THEN managerPlugins' = managerPlugins /\ hookCalls' = << >>
               ELSE /\ hookCalls' = << Call("install", x.name, x.install) >>
                    /\ has(managerPlugins', x.name) <=> x.install = "ok"
            /\ NothingEscapes]_vars

\* C17: uninstall(name) / unuse(name) of a registered plugin invokes its
\* uninstall hook, if it has one, and afterwards the plugin is not registered,
\* whether the hook returned normally or raised; the hook's exception does not
\* escape to the caller.
C17_UninstallContract ==
  [][\A name \in PluginNames :
       /\ (Unuse(name) /\ has(plugins, name)) =>
            /\ EachUninstalledOnce(get(plugins, name))
            /\ ~has(plugins', name)
            /\ NothingEscapes
       /\ (ManagerUninstall(name) /\ has(managerPlugins, name)) =>
            /\ EachUninstalledOnce(get(managerPlugins, name))
            /\ ~has(managerPlugins', name)
            /\ NothingEscapes]_vars

\* C18: full teardown invokes the uninstall hook of every registered plugin
\* exactly once and leaves the registry empty and the breadcrumb history
\* cleared, also when one or more of the hooks raise.
C18_TeardownUninstallsAll ==
  [][/\ \A b \in BOOLEAN :
          MonitorDestroy(b) =>
            /\ EachUninstalledOnce(plugins)
            /\ plugins' = << >>
            /\ breadcrumbs' = << >>
     /\ ManagerDestroy =>
          /\ EachUninstalledOnce(managerPlugins)
          /\ managerPlugins' = << >>]_vars

----------------------------------------------------------------------------
(* Construction *)

\* The configuration lacks a required field or its sampling rate is outside
\* [0, 1]
ConfigInvalid ==
  \/ options.appId = ""
  \/ options.reportUrl = ""
  \/ options.sampling \notin {"0", "0.5", "1"}

\* C19: constructing the coordinator with an invalid configuration (missing
\* or empty appId, missing or empty reportUrl, sampling outside [0, 1]) fails
\* at construction: there is no working coordinator and no engine timer is
\* started.
C19_InvalidConfigRejected ==
  ConfigInvalid => ~monitorBuilt /\ ~reportTimer

\* Persistent storage is unavailable (every access raises) or the beacon
\* primitive is missing
DegradedHost == host.storageRaises \/ ~host.beacon

\* C20: on a host where persistent storage is unavailable or a network
\* primitive is missing, constructing the coordinator and its engine completes
\* without raising, and no later report(), timer tick or teardown signal
\* raises to its caller.
C20_DegradedHostNeverRaises ==
  DegradedHost =>
    /\ monitorBuilt
    /\ lastThrow.handler # "none" => lastThrow.caught

----------------------------------------------------------------------------
(* The durable queue store *)

\* C21: when every access to localStorage raises, every StorageManager
\* operation degrades without raising: save and saveLastReportTime return
\* false, load returns an empty array, getLastReportTime returns 0, and
\* clear and clearTimer do nothing (no operation changes either stored item).
C21_UnavailableStorageDegrades ==
  [][host.storageRaises =>
       /\ UNCHANGED << storedQueue, storedTimer >>
       /\ lastThrow' = NoThrow
       /\ returned'.op = "save" => returned'.value = FALSE
       /\ returned'.op = "saveLastReportTime" => returned'.value = FALSE
       /\ returned'.op = "load" => returned'.value = << >>
       /\ returned'.op = "getLastReportTime" => returned'.value = Number(0)]_vars

\* save() of a non-empty array has just returned where every access raises
C21_SaveRefusedWhereStorageRaises ==
  /\ host.storageRaises
  /\ returned.op = "save"
  /\ returned.data # << >>
  /\ ~returned.value

\* The array serialises to more characters than MAX_STORAGE_SIZE
Oversized(data) ==
  CanStringify(data) /\ JsonLength(JsonStringify(data)) > MAX_STORAGE_SIZE

\* C22: save(data) whose serialisation is larger than the cap returns false
\* without raising and leaves the stored item as it was; when the
\* serialisation is within the cap and localStorage works, it stores the
\* serialisation of exactly the given events under the queue key and returns
\* true.
C22_PersistWithinCap ==
  [][returned'.op = "save" =>
       LET data == returned'.data IN
         /\ lastThrow' = NoThrow
         /\ Oversized(data) =>
              returned'.value = FALSE /\ storedQueue' = storedQueue
         /\ (CanStringify(data) /\ ~Oversized(data) /\ host.storage) =>
              /\ returned'.value = TRUE
              /\ storedQueue' = Item(JsonStringify(data))
              /\ Len(storedQueue'[1].value) = Len(data)
              /\ \A i \in 1..Len(data) : storedQueue'[1].value[i].id = data[i].id
         /\ storedTimer' = storedTimer]_vars

\* An oversized save() has just been refused while an earlier array is stored
C22_OversizedRefusedOverStored ==
  /\ returned.op = "save"
  /\ Oversized(returned.data)
  /\ ~returned.value
  /\ storedQueue # NoItem
  /\ storedQueue[1].parses
  /\ Len(storedQueue[1].value) > 0

\* The item under the queue key is text that does not parse
Corrupted(item) == item # NoItem /\ ~item[1].parses

----------------------------------------------------------------------------
(* The start of the report timer *)

Clamp(x, lo, hi) == IF x < lo THEN lo ELSE IF x > hi THEN hi ELSE x

\* The delay until processQueuedData first runs: at once, or when the first
\* of the armed timers fires
FirstFlushDelay(timers) ==
  IF timers.processedAtOnce THEN 0
  ELSE IF timers.setTimeout = << >> THEN timers.setInterval
  ELSE Min(timers.setInterval, timers.setTimeout[1])

\* A last report time is recorded (saveLastReportTime wrote it)
Recorded(call) == ~call.lastReportTime.nan /\ call.lastReportTime.number > 0

\* C25: when the engine starts with a recorded last report time, the delay
\* before processQueuedData first runs is
\* reportInterval - (now - lastReportTime) clamped into [0, reportInterval],
\* also for a recorded time later than now.
C25_FirstFlushDelayClamped ==
  (returned.op = "startReportTimer" /\ Recorded(returned)) =>
     FirstFlushDelay(returned.value)
       = Clamp(returned.interval - (returned.now - returned.lastReportTime.number),
               0, returned.interval)

\* The timer was started with a recorded time later than the clock reading
C25_StartedWithLaterRecord ==
  /\ returned.op = "startReportTimer"
  /\ Recorded(returned)
  /\ returned.lastReportTime.number > returned.now
  /\ returned.value.setTimeout # << >>
  /\ FirstFlushDelay(returned.value) = returned.interval

----------------------------------------------------------------------------
(* The transports of an urgent batch *)

\* The transports a promise chain of sendBatch goes through, each one tried
\* when the one before it has failed
Strategies(chain) ==
  CASE chain = "resolved" -> << "sendBeacon" >>
    [] chain = "rejected" -> << "sendBeacon" >>
    [] chain = "fetch" -> << "fetch" >>
    [] chain = "fetchThenXHR" -> << "fetch", "XMLHttpRequest" >>

\* send(data) hands the event to sendImmediately
Urgent(data) == PriorityOf(data) = "high" /\ options.enableImmediateReport

\* C26: the batch of an urgent event (high priority, enableImmediateReport)
\* tries sendBeacon, then fetch, then XMLHttpRequest: fetch is tried when
\* sendBeacon is missing or returns false, XMLHttpRequest is tried when fetch
\* fails, and nothing is tried after a transport that succeeded.
C26_UrgentTransportOrder ==
  [][\A kind \in EventKinds, b \in BOOLEAN :
       ( /\ Report(kind, "pass", b)
         /\ ~monitorDestroyed /\ ~isDestroyed
         /\ Urgent(NewEvent(kind))
         /\ CanStringify(<< NewEvent(kind) >>) )
       => \E e \in BagToSet(inflight') :
            /\ e.data = << NewEvent(kind) >>
            /\ Strategies(e.chain) =
                 IF ~host.beacon THEN << "fetch", "XMLHttpRequest" >>
                 ELSE IF b THEN << "sendBeacon" >>
                 ELSE << "sendBeacon", "fetch", "XMLHttpRequest" >>]_vars

\* The fetch of the chain was aborted by its timeout, failed, or was answered
\* with a status that is not a success
PrimaryFailed(chain, outcome) ==
  chain \in {"fetch", "fetchThenXHR"} /\ outcome # "fetchOk"

\* C27: when the fetch of a batch times out (is aborted) or is answered with a
\* non-success status, the batch is not counted as delivered and a retry
\* record holding it is appended, unless the XMLHttpRequest fallback delivers
\* the batch.
C27_FailedRequestIsRetried ==
  [][\A entry \in BagToSet(inflight), outcome \in Outcomes :
       ( /\ Settle(entry, outcome)
         /\ PrimaryFailed(entry.chain, outcome)
         /\ outcome # "xhrLoad" )
       => /\ Len(retryQueue') = Len(retryQueue) + 1
          /\ retryQueue'[Len(retryQueue')].data = entry.data
          /\ released' = released]_vars

\* The engine's handlers that can call sendBatch
SendingHandlers == {"report", "flush", "reportTimer", "retryTimer"}

\* sendBatch raised in the last handler
SendRaised == lastThrow.handler \in SendingHandlers

\* C28: when sendBatch raises synchronously (JSON.stringify of the batch, or a
\* transport call), the outcome is that of a rejected send: pendingRequests
\* is back at the number of sends in flight, the batch has a retry record,
\* and the exception leaves neither Transport.send (called by report) nor
\* flush, the report-timer tick or the retry-timer tick.
C28_SyncRaiseLikeRejection ==
  [][SendRaised' =>
       /\ pendingRequests' = BagCardinality(inflight')
       /\ \E i \in DOMAIN retryQueue' : ~CanStringify(retryQueue'[i].data)
       /\ Len(retryQueue') >= Len(retryQueue)
       /\ lastThrow'.handler # "report"
       /\ lastThrow'.caught]_vars

----------------------------------------------------------------------------
(* Backoff *)

\* C29: for a batch that keeps failing, the wait before its n-th resend is at
\* least retryInterval * 2^(n-1) (base, 2 base, 4 base, ...): the retry
\* record a failed transmission leaves waits that long, each resend adds one
\* to the transmissions of the batch, and a record is resent only when its
\* nextRetryTime has passed.
C29_BackoffDoubles ==
  [][/\ \A entry \in BagToSet(inflight), outcome \in Outcomes :
          (Settle(entry, outcome) /\ Len(retryQueue') = Len(retryQueue) + 1)
            => LET record == retryQueue'[Len(retryQueue')]
               IN /\ record.data = entry.data
                  /\ record.nextRetryTime
                       >= options.retryInterval * Pow2(entry.attempts - 1)
     /\ RetryTick =>
          \A e \in BagToSet(inflight') :
            CopiesIn(e, inflight') > CopiesIn(e, inflight) =>
              \E i \in DOMAIN retryQueue :
                /\ retryQueue[i].data = e.data
                /\ Ready(retryQueue[i])
                /\ e.attempts = Backoff(retryQueue[i]).attempts]_vars

----------------------------------------------------------------------------
(* Draining the queues *)

\* C24: flush() on a live engine whose medium or low queue is not empty
\* submits at least one batch before it returns, however many sends are in
\* flight.
C24_FlushForcesProcessing ==
  [][( /\ Flush
       /\ ~isDestroyed
       /\ (mediumPriorityQueue # << >> \/ lowPriorityQueue # << >>) )
     => BagCardinality(inflight') > BagCardinality(inflight)]_vars

\* The batches a tick takes from the heads of the two queues
Drained(queue) == SpliceHead(queue, options.batchSize)

\* One send in flight for each drained group that is not empty
Submitted(medium, low) ==
  (IF medium # << >>
     THEN SetToBag({[data |-> medium, chain |-> "fetchThenXHR", attempts |-> 1]})
     ELSE EmptyBag)
  (+) (IF low # << >>
         THEN SetToBag({[data |-> low, chain |-> "fetchThenXHR", attempts |-> 1]})
         ELSE EmptyBag)

\* C30: a report-timer tick with at most 3 sends in flight removes at most
\* batchSize events from the head of the medium queue and at most batchSize
\* from the head of the low queue, and submits each group that is not empty
\* as exactly one batch; a tick with more than 3 sends in flight drains
\* nothing and changes no state.
C30_TickDrainsBatches ==
  [][ReportTick =>
       IF pendingRequests <= MaxPendingForDrain
         THEN /\ mediumPriorityQueue' = SpliceRest(mediumPriorityQueue, options.batchSize)
              /\ lowPriorityQueue' = SpliceRest(lowPriorityQueue, options.batchSize)
              /\ inflight' = inflight (+) Submitted(Drained(mediumPriorityQueue),
                                                    Drained(lowPriorityQueue))
              /\ pendingRequests' = pendingRequests
                                      + BagCardinality(inflight') - BagCardinality(inflight)
         ELSE UNCHANGED << highPriorityQueue, mediumPriorityQueue, lowPriorityQueue,
                           pendingRequests, retryQueue, inflight, storedQueue,
                           isDestroyed, reportTimer >>]_vars

----------------------------------------------------------------------------
(* Order within a queue *)

\* The ids of a batch or of a serialised batch, in order
IdSeq(batch) == [i \in 1..Len(batch) |-> batch[i].id]

Holds(ids, id) == \E i \in DOMAIN ids : ids[i] = id

Before(ids, a, b) ==
  \E i, j \in DOMAIN ids : i < j /\ ids[i] = a /\ ids[j] = b

\* What the step hands to a transport: the batch of every send started in it
\* and every body given to navigator.sendBeacon
HandedOver ==
  { IdSeq(e.data) :
      e \in {x \in BagToSet(inflight') :
               CopiesIn(x, inflight') > CopiesIn(x, inflight)} }
  \cup { IdSeq(beaconCalls'[k]) : k \in DOMAIN beaconCalls' }

\* One queue over one step: an event leaves the queue only together with
\* those inserted before it, what stays keeps its order, a batch that holds
\* an event holds those queued before it at earlier positions, and new
\* events come after the ones that were waiting
FifoStep(before, after) ==
  /\ \A i, j \in DOMAIN before :
       i < j =>
         /\ Holds(after, before[i]) => Holds(after, before[j])
         /\ (Holds(after, before[i]) /\ Holds(after, before[j]))
              => Before(after, before[i], before[j])
         /\ \A batch \in HandedOver :
              Holds(batch, before[j]) => Before(batch, before[i], before[j])
  /\ \A x, y \in DOMAIN after :
       (Holds(before, after[x]) /\ ~Holds(before, after[y])) => x < y

\* C31: of two events in the same priority queue, the one inserted earlier
\* is handed to a transport no later than the other: in an earlier batch, or
\* in the same batch at an earlier position, on report-timer ticks, overflow
\* flushes, flush() and teardown.
C31_FifoDrain ==
  [][/\ FifoStep(IdSeq(highPriorityQueue), IdSeq(highPriorityQueue'))
     /\ FifoStep(IdSeq(mediumPriorityQueue), IdSeq(mediumPriorityQueue'))
     /\ FifoStep(IdSeq(lowPriorityQueue), IdSeq(lowPriorityQueue'))]_vars

\* The first of two events of one queue is in flight while the second waits
C31_EarlierSentLaterWaits ==
  \E e \in BagToSet(inflight) :
    /\ e.attempts = 1
    /\ \E q \in {mediumPriorityQueue, lowPriorityQueue} :
         /\ q # << >>
         /\ PriorityOf(q[1]) = PriorityOf(e.data[1])
         /\ e.data[Len(e.data)].id < q[1].id

----------------------------------------------------------------------------
(* Empty queues *)

\* C32: no transport (sendBeacon, fetch, XMLHttpRequest) is called with a
\* batch of no events, on a report-timer tick, an overflow flush, flush(), an
\* immediate send, a retry resend or a teardown flush; and a tick or flush()
\* that finds the three queues empty changes nothing of the engine or of the
\* store.
C32_NoEmptyBatch ==
  [][/\ \A batch \in HandedOver : Len(batch) > 0
     /\ ((ReportTick \/ Flush) /\ TotalQueueSize(Cur) = 0) =>
          UNCHANGED << highPriorityQueue, mediumPriorityQueue, lowPriorityQueue,
                       pendingRequests, retryQueue, isDestroyed, reportTimer,
                       inflight, storedQueue, released >>]_vars

\* A teardown flush has given its events to sendBeacon and kept a copy in
\* the store; the queues are empty for the ticks that follow on the page
C32_FlushedAndEmpty ==
  /\ ~isDestroyed
  /\ reportTimer
  /\ beaconCalls # << >>
  /\ \A k \in DOMAIN beaconCalls : Len(beaconCalls[k]) > 0
  /\ TotalQueueSize(Cur) = 0
  /\ storedQueue # NoItem

----------------------------------------------------------------------------
(* Teardown and the store *)

\* The events navigator.sendBeacon accepted in the step
AcceptedByBeacon(beaconReturn) ==
  IF beaconReturn
    THEN UNION { {beaconCalls'[k][i].id : i \in 1..Len(beaconCalls'[k])} :
                 k \in DOMAIN beaconCalls' }
    ELSE {}

\* The events resident in the three queues after the step
ResidentAfter ==
  IdsOf(highPriorityQueue') \cup IdsOf(mediumPriorityQueue')
    \cup IdsOf(lowPriorityQueue')

\* C33: at a teardown signal only what was not sent is kept in the store: an
\* event that sendBeacon accepted is not in the stored item afterwards, and
\* the Transport constructed after the reload does not restore it (so it is
\* not transmitted a second time).
C33_OnlyUnsentPersisted ==
  [][\A b \in BOOLEAN :
       /\ PageHide(b) =>
            \A id \in AcceptedByBeacon(b) :
              storedQueue' = NoItem \/ ~Holds(IdSeq(storedQueue'[1].value), id)
       /\ \A below \in BOOLEAN :
            Reload(b, below) =>
              AcceptedByBeacon(b) \cap ResidentAfter = {}]_vars

----------------------------------------------------------------------------
(* The breadcrumbs of an event *)

\* The events of a sequence of events, each with its breadcrumb list
CrumbsIn(events) ==
  {<< events[i].id, events[i].breadcrumbs >> : i \in 1..Len(events)}

\* Every event the engine or the store holds, with its breadcrumb list
CrumbsOf(high, medium, low, sends, records, item) ==
  CrumbsIn(high) \cup CrumbsIn(medium) \cup CrumbsIn(low)
    \cup UNION {CrumbsIn(e.data) : e \in BagToSet(sends)}
    \cup UNION {CrumbsIn(records[i].data) : i \in 1..Len(records)}
    \cup (IF item = NoItem \/ ~item[1].parses THEN {} ELSE CrumbsIn(item[1].value))

\* C34: the breadcrumb list of an event is the breadcrumb history at the
\* moment of its report() call, and nothing the Monitor does later changes
\* it: not addBreadcrumb (with or without eviction), not destroy.
C34_BreadcrumbsFrozen ==
  [][LET before == CrumbsOf(highPriorityQueue, mediumPriorityQueue,
                            lowPriorityQueue, inflight, retryQueue, storedQueue)
         after == CrumbsOf(highPriorityQueue', mediumPriorityQueue',
                           lowPriorityQueue', inflight', retryQueue', storedQueue')
     IN /\ \A old \in before, new \in after :
             old[1] = new[1] => old[2] = new[2]
        /\ \A new \in after :
             (new[1] = nextId /\ nextId' = nextId + 1) => new[2] = breadcrumbs]_vars

\* An event reported with one breadcrumb still waits in a queue after the
\* history has evicted that breadcrumb
C34_WaitsWithEvictedCrumb ==
  \E q \in {highPriorityQueue, mediumPriorityQueue, lowPriorityQueue} :
    /\ q # << >>
    /\ q[1].breadcrumbs # << >>
    /\ breadcrumbs # << >>
    /\ q[1].breadcrumbs[1] < breadcrumbs[1]

----------------------------------------------------------------------------
(* The in-flight count *)

\* C35: in every reachable state the pending count getQueueStatus() reports
\* is the number of batch transmissions started and not yet settled: never
\* negative, and 0 when no transmission is outstanding.
C35_PendingIsInFlight ==
  /\ getQueueStatus(Cur).pending = BagCardinality(inflight)
  /\ getQueueStatus(Cur).pending >= 0

----------------------------------------------------------------------------
(* The high-priority queue under the timers *)

\* The event is in the batch of a send in flight
InFlight(id) == \E e \in BagToSet(inflight) : id \in IdsOf(e.data)

\* C36: an event waiting in the high-priority queue is eventually submitted
\* for transmission by the report-timer ticks alone, with at most 3 sends in
\* flight, without a teardown signal or destroy().
C36_HighQueueDrainedByTicks ==
  \A id \in 1..MaxEvents :
    (Holds(IdSeq(highPriorityQueue), id) /\ pendingRequests <= MaxPendingForDrain)
      ~> InFlight(id)

----------------------------------------------------------------------------
(* Reports about the pipeline's own requests *)

\* C37: a request the engine sends to the collector, whether it succeeds or
\* fails, never makes the error monitor (or the performance monitor) create
\* an event: only a report() call of the host creates one.
C37_NoSelfReport ==
  [][lastCall' # "report" => nextId' = nextId]_vars

----------------------------------------------------------------------------
(* After Transport.destroy *)

\* C38: once destroy() has returned, the three priority queues and the retry
\* queue are empty in every later state, whatever calls, ticks, teardown
\* signals and late completions of in-flight requests follow.
C38_QuiescentAfterDestroy ==
  isDestroyed =>
    /\ highPriorityQueue = << >>
    /\ mediumPriorityQueue = << >>
    /\ lowPriorityQueue = << >>
    /\ retryQueue = << >>

----------------------------------------------------------------------------
(* Two teardown signals in a row *)

----------------------------------------------------------------------------
(* The facade on a bot host *)

\* C40: on a host whose user agent is classified as a bot no facade method
\* raises, and no event is queued, persisted or transmitted.
C40_BotFacadeInert ==
  isBot =>
    /\ lastThrow = NoThrow
    /\ TotalQueueSize(Cur) = 0
    /\ retryQueue = << >>
    /\ inflight = EmptyBag
    /\ storedQueue = NoItem
    /\ beaconCalls = << >>

====
